---- MODULE Spec2Model ----
(***************************************************************************)
(* SafeSandbox: the service-worker firewall (Mediator), the outer-frame    *)
(* message relay (Relay) and the <safe-sandbox> element with its heartbeat *)
(* kill switch (Supervisor).                                               *)
(*                                                                         *)
(* Specifications over one state:                                          *)
(*   SpecMediator   the fetch handler of the service worker, one request   *)
(*                  in flight, every await a step, interleaved with rules  *)
(*                  updates arriving at the worker's message handler.      *)
(*   SpecRelay      the frame cycle with execute() calls, the untrusted    *)
(*                  frame and other windows posting to the outer frame.    *)
(*   SpecHeartbeat  the frame cycle with the heartbeat interval, the       *)
(*                  worker's PONGs and reset().                            *)
(*   SpecPolicy     the frame cycle with setNetworkRules() calls and the   *)
(*                  untrusted frame posting rules to the worker.           *)
(*   SpecKillSwitch the heartbeat after untrusted code has unregistered    *)
(*                  the worker, with fair timers and handlers.             *)
(*   SpecPrompt     the heartbeat with a worker that answers every PING    *)
(*                  before the next tick.                                  *)
(*   SpecRebuild, SpecRebuildPolicy, SpecRebuildExec                       *)
(*                  reset() with its timer (fair in SpecRebuild), with     *)
(*                  setNetworkRules() calls, with queued execute() calls.  *)
(*   SpecRelayReset the relay with RESET messages from the embedding page. *)
(*   SpecCspPolicy  the element that carries the allow list in the URL of  *)
(*                  the outer frame, with its setNetworkRules() calls.     *)
(*   SpecHostGate   the element's message listener with messages posted by *)
(*                  a window of another origin.                            *)
(*   SpecRelayQueue the relay with execute() calls that repeat a command.   *)
(*   SpecConsole    the inner frame's console LOGs on their way to the     *)
(*                  host, with an execute() and a setNetworkRules() call.  *)
(*   SpecContextPosts  the relay with the untrusted frame posting messages  *)
(*                  shaped like the host's commands.                       *)
(*   SpecArming     the heartbeat with reset() and with the element        *)
(*                  leaving and entering the document.                     *)
(*   Spec           all of these steps together.                           *)
(*                                                                         *)
(* The sources hold the element and the worker with the heartbeat, and an  *)
(* outer frame that posts rules to the worker as "UPDATE_RULES" and has no *)
(* branch for REGISTER_HEARTBEAT_PORT.  The worker's handlers take         *)
(* "SET_NETWORK_RULES" and the port; the outer frame's two hand-overs to   *)
(* the worker are modelled as those handlers expect them (RulesTag,        *)
(* ForwardHeartbeatPort).                                                  *)
(***************************************************************************)
EXTENDS Integers, Sequences, FiniteSets, TLC

\* An optional value (a field that may be undefined, a header that may be
\* missing): <<>> when absent, <<v>> when present.
Absent  == <<>>
Some(v) == <<v>>
IsSet(x) == Len(x) = 1

\* JavaScript truthiness of an optional number or string: undefined, 0 and
\* the empty string are falsy.
TruthyNum(x) == IsSet(x) /\ x[1] # 0
TruthyStr(x) == IsSet(x) /\ x[1] # ""

\* String.prototype.endsWith on strings kept as token sequences.
EndsWith(s, suffix) ==
    /\ Len(suffix) <= Len(s)
    /\ SubSeq(s, Len(s) - Len(suffix) + 1, Len(s)) = suffix

(***************************************************************************)
(* Mediator: data                                                          *)
(***************************************************************************)
SandboxHost == <<"sandbox", ".", "localhost">>
ApiHost     == <<"api", ".", "example", ".", "com">>
EvilHost    == <<"evil", "example", ".", "com">>
ExampleCom  == <<"example", ".", "com">>

\* self.location.origin of the worker
SelfOrigin == [protocol |-> "http", hostname |-> SandboxHost]

AllMethods == {"GET", "POST", "PUT", "DELETE", "PATCH", "HEAD", "OPTIONS"}

Methods   == {"GET", "POST"}
Protocols == {"http", "https"}
Hostnames == {SandboxHost, ApiHost, EvilHost}
Pathnames == {"/config.json", "/empty.txt", "/inner-frame.html", "/data"}

Requests ==
    [method : Methods, protocol : Protocols, hostname : Hostnames,
     pathname : Pathnames]

NoFiles == [p \in {} |-> ""]

\* the initial value of networkRules
DefaultRules ==
    [allow            |-> {},
     allowProtocols   |-> {"http", "https"},
     allowMethods     |-> AllMethods,
     maxContentLength |-> Absent,
     proxyUrl         |-> Absent,
     files            |-> NoFiles,
     cacheStrategy    |-> "network-first"]

\* A rules object as it arrives in a message: every field is optional.
EmptyRules ==
    [allow            |-> Absent,
     allowProtocols   |-> Absent,
     allowMethods     |-> Absent,
     maxContentLength |-> Absent,
     proxyUrl         |-> Absent,
     files            |-> Absent,
     cacheStrategy    |-> Absent]

SmallLimit == 10

DemoFiles ==
    [p \in {"/config.json", "/empty.txt"} |->
        IF p = "/config.json" THEN "cfg" ELSE ""]

\* The rules objects the updates are drawn from.
RuleInputs ==
    { EmptyRules,
      [EmptyRules EXCEPT !.allow = Some({ExampleCom})],
      [EmptyRules EXCEPT !.allow = Some({ApiHost}),
                         !.maxContentLength = Some(SmallLimit),
                         !.cacheStrategy = Some("cache-first")],
      [EmptyRules EXCEPT !.allow = Some({ExampleCom}),
                         !.proxyUrl = Some("/_proxy"),
                         !.maxContentLength = Some(SmallLimit)],
      [EmptyRules EXCEPT !.allow = Some({ExampleCom}),
                         !.proxyUrl = Some("https://proxy.example/fetch")],
      [EmptyRules EXCEPT !.allow = Some({ExampleCom}),
                         !.maxContentLength = Some(0),
                         !.cacheStrategy = Some("network-only")],
      [EmptyRules EXCEPT !.files = Some(DemoFiles),
                         !.allow = Some({ApiHost}),
                         !.allowProtocols = Some({"https"}),
                         !.allowMethods = Some({"GET"})] }

\* a ?? b
Coalesce(a, b) == IF IsSet(a) THEN a[1] ELSE b

\* The object the SET_NETWORK_RULES branch assigns to networkRules.
NormalizeRules(rules) ==
    [allow            |-> Coalesce(rules.allow, {}),
     allowProtocols   |-> Coalesce(rules.allowProtocols, {"http", "https"}),
     allowMethods     |-> Coalesce(rules.allowMethods, AllMethods),
     maxContentLength |-> rules.maxContentLength,
     proxyUrl         |-> rules.proxyUrl,
     files            |-> Coalesce(rules.files, NoFiles),
     cacheStrategy    |-> Coalesce(rules.cacheStrategy, "network-first")]

\* an update that keeps, for each field the message leaves out, the value
\* in force
MergedInto(current, rules) ==
    [allow            |-> Coalesce(rules.allow, current.allow),
     allowProtocols   |-> Coalesce(rules.allowProtocols,
                                   current.allowProtocols),
     allowMethods     |-> Coalesce(rules.allowMethods, current.allowMethods),
     maxContentLength |-> IF IsSet(rules.maxContentLength)
                            THEN rules.maxContentLength
                            ELSE current.maxContentLength,
     proxyUrl         |-> IF IsSet(rules.proxyUrl) THEN rules.proxyUrl
                                                   ELSE current.proxyUrl,
     files            |-> Coalesce(rules.files, current.files),
     cacheStrategy    |-> Coalesce(rules.cacheStrategy,
                                   current.cacheStrategy)]

\* networkRules = {...}: the variable is assigned a new object, built from
\* the message alone
ReplacedBy(current, rules) == NormalizeRules(rules)

\* files[virtualPath] on a plain object: undefined when the key is absent
FileAt(files, path) ==
    IF path \in DOMAIN files THEN Some(files[path]) ELSE Absent

\* url.origin === self.location.origin
SameOrigin(r) ==
    r.protocol = SelfOrigin.protocol /\ r.hostname = SelfOrigin.hostname

\* IsAllowed with the comparison narrowed to the last label of the hostname
IsAllowedByLastLabel(allowList, hostname) ==
    \E domain \in allowList :
        domain # <<>> /\ hostname[Len(hostname)] = domain[Len(domain)]

\* allowList.some((domain) => url.hostname.endsWith(domain))
IsAllowed(allowList, hostname) ==
    \E domain \in allowList : EndsWith(hostname, domain)

\* A string as the sequence of its tokens; the characters that
\* encodeURIComponent escapes are tokens of their own.
Tokens(s) ==
    CASE s = "/_proxy"      -> <<"/", "_proxy">>
      [] s = "https://proxy.example/fetch" ->
            <<"https", ":", "/", "/", "proxy.example", "/", "fetch">>
      [] s = "/config.json" -> <<"/", "config.json">>
      [] s = "/empty.txt"   -> <<"/", "empty.txt">>
      [] s = "/inner-frame.html" -> <<"/", "inner-frame.html">>
      [] s = "/data"        -> <<"/", "data">>

\* event.request.url
Href(r) == <<r.protocol, ":", "/", "/">> \o r.hostname \o Tokens(r.pathname)

\* encodeURIComponent
PercentEncode(s) ==
    [i \in DOMAIN s |->
        CASE s[i] = ":" -> "%3A"
          [] s[i] = "/" -> "%2F"
          [] s[i] = "?" -> "%3F"
          [] s[i] = "=" -> "%3D"
          [] s[i] = "&" -> "%26"
          [] OTHER      -> s[i]]

\* s.replace(run, ""): the first occurrence of run is removed
RECURSIVE WithoutFirst(_, _)
WithoutFirst(s, run) ==
    IF Len(s) < Len(run) THEN s
    ELSE IF SubSeq(s, 1, Len(run)) = run
      THEN SubSeq(s, Len(run) + 1, Len(s))
    ELSE <<Head(s)>> \o WithoutFirst(Tail(s), run)

\* self.location.origin.replace("sandbox.", "")
WorkerHostOrigin ==
    WithoutFirst(<<SelfOrigin.protocol, ":", "/", "/">> \o SelfOrigin.hostname,
                 <<"sandbox", ".">>)

\* proxyBase as the proxy branch leaves it, without the host origin
ProxyBaseAsGiven(proxyUrl) == Tokens(proxyUrl)

\* proxyBase: a proxyUrl that starts with "/" gets the host origin in front
ProxyBase(proxyUrl) ==
    IF Head(Tokens(proxyUrl)) = "/"
      THEN WorkerHostOrigin \o Tokens(proxyUrl)
      ELSE Tokens(proxyUrl)

\* `${proxyBase}?url=${encodeURIComponent(event.request.url)}`
ProxyTarget(proxyUrl, r) ==
    ProxyBase(proxyUrl) \o <<"?", "url", "=">> \o PercentEncode(Href(r))

\* What the network can answer to a fetch: a failure, or a response that
\* declares a content-length (or none).
DeclaredLengths == {Absent, Some(5), Some(100)}
FetchOutcomes ==
    {[ok |-> FALSE, contentLength |-> Absent]} \cup
    [ok : {TRUE}, contentLength : DeclaredLengths]

\* checkContentLength: TRUE when the 413 response replaces the upstream one
SizeBlocked(contentLength, maxLength) ==
    /\ TruthyNum(maxLength)
    /\ IsSet(contentLength)
    /\ contentLength[1] > maxLength[1]

(***************************************************************************)
(* Mediator: state                                                         *)
(*   networkRules  the module-level rules object of the worker             *)
(*   cache         the pathnames that have an entry in the Cache store     *)
(*   inflight      the fetch event being handled: where its async handler  *)
(*                 stands (pc), what it captured, and, once pc = "done",   *)
(*                 the response it resolved to.  target is the URL the     *)
(*                 proxy branch built, reason the check named in the       *)
(*                 message of a 403; admitted, maxUsed, fetches and        *)
(*                 cacheUsed (the handler has read or written the Cache    *)
(*                 store) are history fields.                              *)
(***************************************************************************)
VARIABLES networkRules, cache, inflight

mvars == <<networkRules, cache, inflight>>

(***************************************************************************)
(* Supervisor (the <safe-sandbox> element), Relay (outer frame), execution *)
(* context (inner frame) and the worker's message side: state              *)
(*                                                                         *)
(*   parentOrigin  origin of the page that embeds the outer frame          *)
(*   connected     connectedCallback has run (the message listener is on)  *)
(*   iframe        the element's current iframe: gen counts the iframes    *)
(*                 created and the navigations of the current one; doc is  *)
(*                 "none" (not in a document), "blank" (attached, no src   *)
(*                 yet), "loading" (src set), "outer" (outer-frame script  *)
(*                 has run); src is the allow parameter of the URL it was  *)
(*                 given (absent when the URL has none)                    *)
(*   hostRules     _networkRules, with the number of the setNetworkRules   *)
(*                 call that stored it (ver, a history field)              *)
(*   isResetting, resetTimers   _isResetting and the pending 100 ms timers *)
(*   heartbeatIntervalId        TRUE while the interval is set             *)
(*   heartbeatChannel           TRUE while a channel is held (not null)    *)
(*   heartbeatFailures, pendingPing                                        *)
(*   port1Inbox    messages queued on port1 of the current channel         *)
(*   pings         PINGs posted on port1 and not yet taken at port2        *)
(*   hostInbox     message events queued on the host window                *)
(*   relayInbox    message events queued on the outer frame's window       *)
(*   innerFrameReady, executionQueue, pendingRules   the relay's variables *)
(*   syncQueue     callbacks waiting on navigator.serviceWorker.ready      *)
(*   polling       checkState is rescheduling itself                       *)
(*   innerLoaded, innerInbox    the inner frame and its queued messages    *)
(*   swState       the worker registration: "none", "installing", "active" *)
(*   swInbox       message events queued on the worker                     *)
(*   swOutbox      ipc.send broadcasts not yet delivered to the clients    *)
(*   heartbeatPort the port2 the worker holds: "none", "cur" (of the       *)
(*                 element's current channel), "old" (of a closed one)     *)
(*   swVer         ver of the rules message the worker applied last        *)
(* History variables: issued (execute calls made), observed (EXECUTEs run  *)
(* by a context), ticks (interval ticks since arming), pongs (PONGs taken  *)
(* since arming), hbReset (the tick at which the interval called reset),   *)
(* calls (reset() calls since the last rebuild), teardowns (iframes        *)
(* removed), provisions (iframes given their src after a reset), acked     *)
(* (ver of the last acknowledgement the host has seen), accepted (last     *)
(* message the relay took as a host command), attacks (messages sent by    *)
(* untrusted code or by other scripts), armedGen (gen of the context whose *)
(* READY the element handled last, 0 before the first), early (for the     *)
(* k-th execute call: it was made on an attached iframe whose relay had    *)
(* not had its context's READY), discarded (codes that were in             *)
(* executionQueue when their frame was removed), emitted (the event the     *)
(* latest run of _onMessage or of the interval callback dispatched on the  *)
(* element: "ready", "log", "message", or "none"), contextLogs (said: the  *)
(* number of LOG messages the inner frame has posted from its console, the *)
(* k-th carrying k; heard: the numbers of those for which the element has  *)
(* dispatched "log", in the order of the events).                          *)
(*   live          the intervals set and not cleared (timers) and the      *)
(*                 message channels made and not closed (channels)         *)
(***************************************************************************)
VARIABLES parentOrigin, connected, iframe, hostRules, isResetting,
          resetTimers, heartbeatIntervalId, heartbeatChannel,
          heartbeatFailures, pendingPing, port1Inbox, pings, hostInbox,
          relayInbox, innerFrameReady, executionQueue, pendingRules,
          syncQueue, polling, innerLoaded, innerInbox,
          swState, swInbox, swOutbox, heartbeatPort, swVer,
          issued, observed, ticks, pongs, hbReset, calls, teardowns,
          provisions, acked, accepted, attacks, armedGen, early,
          discarded, emitted, contextLogs, live

hbVars    == <<heartbeatIntervalId, heartbeatChannel, heartbeatFailures,
               pendingPing, port1Inbox, pings, ticks, pongs, hbReset>>
resetVars == <<isResetting, resetTimers, calls, teardowns, provisions>>
relayVars == <<relayInbox, innerFrameReady, executionQueue, pendingRules,
               syncQueue, polling>>
innerVars == <<innerLoaded, innerInbox, observed>>
swVars    == <<swState, swInbox, swOutbox, heartbeatPort, swVer>>

svars == <<parentOrigin, connected, iframe, hostRules, hostInbox, hbVars,
           resetVars, relayVars, innerVars, swVars, issued, acked, accepted,
           attacks, armedGen, early, discarded, emitted,
                   contextLogs, live>>

vars == <<mvars, svars>>

ASSETS_TO_CACHE == {"/outer-frame.html", "/inner-frame.html"}

NoRequest ==
    [method |-> "GET", protocol |-> "http", hostname |-> SandboxHost,
     pathname |-> "/"]

NoOutcome == [ok |-> FALSE, contentLength |-> Absent]

Idle ==
    [pc |-> "idle", request |-> NoRequest, admitted |-> DefaultRules,
     content |-> Absent, via |-> "none", res |-> NoOutcome,
     sizeChecked |-> FALSE, maxUsed |-> Absent, hint |-> FALSE,
     target |-> <<>>, cacheUsed |-> FALSE, reason |-> "none",
     telemetry |-> <<>>, fetches |-> 0,
     kind |-> "none", status |-> 0, body |-> ""]

Event(level, area) == [level |-> level, area |-> area]

\* caches.match(event.request) with the default options: only a GET request
\* matches an entry
NoMatch(c, r) == FALSE

CacheMatch(c, r) == r.method = "GET" /\ r.pathname \in c

\* cache.put(event.request, ...): rejects for a request that is not a GET
CachePut(c, r) == IF r.method = "GET" THEN c \cup {r.pathname} ELSE c

\* await ipc.send(level, area, ...)
Sent(f, level, area) ==
    [f EXCEPT !.telemetry = Append(@, Event(level, area))]

\* the handler's promise settles
Respond(f, kind, status, body) ==
    [f EXCEPT !.pc = "done", !.kind = kind, !.status = status, !.body = body]

\* the checks of a cross-origin request in another order
ChecksDomainFirst == <<"domain", "protocol", "method">>

\* 3. Protocol Check, 4. Method Check, 5. Allowed Domains: the checks of a
\* cross-origin request, in the order of the handler
Checks == <<"protocol", "method", "domain">>

\* the condition under which a check returns the 403
Violates(check, r) ==
    CASE check = "protocol" -> r.protocol \notin networkRules.allowProtocols
      [] check = "method"   -> r.method \notin networkRules.allowMethods
      [] check = "domain"   -> ~IsAllowed(networkRules.allow, r.hostname)

\* the first check that returns, "none" if the request passes them all
FirstViolated(r) ==
    IF \E i \in DOMAIN Checks : Violates(Checks[i], r)
      THEN Checks[CHOOSE i \in DOMAIN Checks :
                     /\ Violates(Checks[i], r)
                     /\ \A j \in 1..(i - 1) : ~Violates(Checks[j], r)]
      ELSE "none"

\* The synchronous head of the async handler, up to its first await: every
\* branch is chosen from the networkRules of this moment.
Admit(r) ==
    LET files   == networkRules.files
        content == FileAt(files, r.pathname)
        f0      == [Idle EXCEPT !.request = r, !.admitted = networkRules]
    IN  IF TruthyStr(content)
          THEN [f0 EXCEPT !.pc = "virtual", !.content = content]
        ELSE IF SameOrigin(r)
          THEN IF r.pathname = "/inner-frame.html"
                 THEN [f0 EXCEPT !.pc = "inner_match"]
               ELSE IF networkRules.cacheStrategy = "cache-first"
                 THEN [f0 EXCEPT !.pc = "cf_match"]
               ELSE IF networkRules.cacheStrategy = "network-only"
                 THEN [f0 EXCEPT !.pc = "pass_fetch"]
               ELSE [f0 EXCEPT !.pc = "nf_fetch"]
        ELSE IF FirstViolated(r) # "none"
          THEN [f0 EXCEPT !.pc = "block", !.reason = FirstViolated(r)]
        ELSE IF TruthyStr(networkRules.proxyUrl)
          THEN [f0 EXCEPT !.pc = "proxy_log", !.via = "proxy",
                          !.target = ProxyTarget(
                                        networkRules.proxyUrl[1], r)]
        ELSE [f0 EXCEPT !.pc = "direct_log", !.via = "direct"]

(***************************************************************************)
(* Mediator: the message handler and the fetch handler                     *)
(***************************************************************************)
\* self "message": SET_NETWORK_RULES replaces networkRules.
SetNetworkRules(rules) ==
    /\ networkRules' = ReplacedBy(networkRules, rules)
    /\ UNCHANGED <<cache, inflight>>
    /\ UNCHANGED svars

\* self "fetch": a request is intercepted.
FetchEvent(r) ==
    /\ inflight.pc \in {"idle", "done"}
    /\ inflight' = Admit(r)
    /\ UNCHANGED <<networkRules, cache>>
    /\ UNCHANGED svars

\* 1. Virtual Files
ServeVirtual ==
    /\ inflight.pc = "virtual"
    /\ inflight' = Respond(Sent(inflight, "log", "network"),
                           "ServeVirtual", 200, inflight.content[1])
    /\ UNCHANGED <<networkRules, cache>>
    /\ UNCHANGED svars

\* 2. Same-Origin, inner-frame.html: caches.match, else fetch
InnerFrameMatch ==
    /\ inflight.pc = "inner_match"
    /\ LET f == [inflight EXCEPT !.cacheUsed = TRUE]
       IN  inflight' = IF CacheMatch(cache, inflight.request)
                         THEN Respond(f, "ServeCache", 200, "cached")
                         ELSE [f EXCEPT !.pc = "inner_fetch"]
    /\ UNCHANGED <<networkRules, cache>>
    /\ UNCHANGED svars

\* a fetch whose promise is returned as it is: a rejection is the handler's
FetchReturned(o) ==
    /\ inflight.pc \in {"inner_fetch", "pass_fetch"}
    /\ LET f == [inflight EXCEPT !.fetches = @ + 1, !.res = o]
       IN  inflight' = IF o.ok THEN Respond(f, "Passthrough", 200, "upstream")
                               ELSE Respond(f, "Fault", 0, "")
    /\ UNCHANGED <<networkRules, cache>>
    /\ UNCHANGED svars

\* cache-first: caches.match, else fetch
CacheFirstMatch ==
    /\ inflight.pc = "cf_match"
    /\ LET f == [inflight EXCEPT !.cacheUsed = TRUE]
       IN  inflight' = IF CacheMatch(cache, inflight.request)
                         THEN Respond(f, "ServeCache", 200, "cached")
                         ELSE [f EXCEPT !.pc = "pass_fetch"]
    /\ UNCHANGED <<networkRules, cache>>
    /\ UNCHANGED svars

\* network-first: fetch, put a clone in the cache; on failure fall back
NetworkFirstFetched(o) ==
    /\ inflight.pc = "nf_fetch"
    /\ LET f == [inflight EXCEPT !.fetches = @ + 1, !.res = o]
       IN  IF o.ok
             THEN /\ cache' = CachePut(cache, inflight.request)
                  /\ inflight' = Respond([f EXCEPT !.cacheUsed = TRUE],
                                         "Passthrough", 200, "upstream")
             ELSE /\ cache' = cache
                  /\ inflight' = [f EXCEPT !.pc = "nf_match"]
    /\ UNCHANGED networkRules
    /\ UNCHANGED svars

NetworkFirstFallback ==
    /\ inflight.pc = "nf_match"
    /\ LET f == [inflight EXCEPT !.cacheUsed = TRUE]
       IN  inflight' = IF CacheMatch(cache, inflight.request)
                         THEN Respond(f, "ServeCache", 200, "cached")
                         ELSE Respond(f, "Fault", 0, "")
    /\ UNCHANGED <<networkRules, cache>>
    /\ UNCHANGED svars

\* 3., 4. and the final block: ipc.send, then the 403 response
BlockSent ==
    /\ inflight.pc = "block"
    /\ inflight' = Respond(Sent(inflight, "error", "security"),
                           "Block", 403, "blocked")
    /\ UNCHANGED <<networkRules, cache>>
    /\ UNCHANGED svars

\* 5. allowed: the "Proxy: ..." / "Fetch: ..." line is sent, the fetch starts
ForwardLogged ==
    /\ inflight.pc \in {"proxy_log", "direct_log"}
    /\ inflight' = [Sent(inflight, "log", "network") EXCEPT
                      !.pc = IF inflight.via = "proxy" THEN "proxy_fetch"
                                                       ELSE "direct_fetch"]
    /\ UNCHANGED <<networkRules, cache>>
    /\ UNCHANGED svars

\* if (!networkRules.proxyUrl) message += " (Try adding a proxyUrl ...)", in
\* the catch block of the direct forward only
NoHint(via, proxyUrl) == FALSE

ProxyHint(via, proxyUrl) == via = "direct" /\ ~TruthyStr(proxyUrl)

\* The forward's fetch settles.  The size check reads networkRules at this
\* moment, and so does the catch block of the direct path.
ForwardFetched(o) ==
    /\ inflight.pc \in {"proxy_fetch", "direct_fetch"}
    /\ LET f == [inflight EXCEPT !.fetches = @ + 1, !.res = o]
           maxLength == networkRules.maxContentLength
       IN  inflight' =
             IF ~o.ok
               THEN [f EXCEPT !.pc = "error",
                              !.hint = ProxyHint(inflight.via,
                                                 networkRules.proxyUrl)]
             ELSE IF SizeBlocked(o.contentLength, maxLength)
               THEN [f EXCEPT !.pc = "size_block", !.sizeChecked = TRUE,
                              !.maxUsed = maxLength]
             ELSE [f EXCEPT !.pc = "forward_ok", !.sizeChecked = TRUE,
                            !.maxUsed = maxLength]
    /\ UNCHANGED <<networkRules, cache>>
    /\ UNCHANGED svars

\* checkContentLength: ipc.send, then the 413 response
SizeBlockSent ==
    /\ inflight.pc = "size_block"
    /\ inflight' = Respond(Sent(inflight, "error", "security"),
                           "Block", 413, "too-large")
    /\ UNCHANGED <<networkRules, cache>>
    /\ UNCHANGED svars

\* the upstream response is released to the caller
ForwardReleased ==
    /\ inflight.pc = "forward_ok"
    /\ inflight' = Respond(Sent(inflight, "log", "network"),
                           "Forward", 200, "upstream")
    /\ UNCHANGED <<networkRules, cache>>
    /\ UNCHANGED svars

\* catch: ipc.send, then the 502 response
ErrorSent ==
    /\ inflight.pc = "error"
    /\ inflight' = Respond(Sent(inflight, "error", "network"),
                           "Block", 502, "upstream-failure")
    /\ UNCHANGED <<networkRules, cache>>
    /\ UNCHANGED svars

(***************************************************************************)
(* Origins and messages                                                    *)
(***************************************************************************)
HostOrigin    == <<"http://", "localhost:3333">>
SandboxOrigin == <<"http://", "sandbox.", "localhost:3333">>
ForeignOrigin == <<"https://", "evil.example">>

\* String.prototype.replace(token, ""): the first occurrence is removed
RemoveFirst(s, token) ==
    IF \E i \in 1..Len(s) : s[i] = token
      THEN LET k == CHOOSE i \in 1..Len(s) :
                      s[i] = token /\ \A j \in 1..(i - 1) : s[j] # token
           IN  SubSeq(s, 1, k - 1) \o SubSeq(s, k + 1, Len(s))
      ELSE s

\* outer frame: params.get("host") || window.location.origin.replace(...);
\* the element gives the frame no host parameter
HOST_ORIGIN == RemoveFirst(SandboxOrigin, "sandbox.")

\* element: _sandboxOrigin, the sandbox-origin attribute or by default
\* "sandbox." put before the page's host
sandboxOrigin == SandboxOrigin

\* a message event on the outer frame's window
RelayMsg(source, origin, type, code, rules, ver, port) ==
    [source |-> source, origin |-> origin, type |-> type, code |-> code,
     rules |-> rules, ver |-> ver, port |-> port]

\* a message event on the host window
HostMsg(origin, type, text, ver, gen) ==
    [origin |-> origin, type |-> type, text |-> text, ver |-> ver,
     gen |-> gen]

\* a message event on the worker
WorkerMsg(type, rules, ver, port) ==
    [type |-> type, rules |-> rules, ver |-> ver, port |-> port]

\* the rules objects the host application passes to setNetworkRules
HostRuleChoices ==
    { [EmptyRules EXCEPT !.allow = Some({ExampleCom})],
      [EmptyRules EXCEPT !.files = Some(DemoFiles)] }

\* the rules object untrusted code posts: "" is a suffix of every hostname
OpenRules == [EmptyRules EXCEPT !.allow = Some({<<>>})]

Threshold == 5

MaxExec    == 3
MaxPolicy  == 2
MaxCalls   == 2
MaxGen     == 2
MaxTicks   == 7
MaxAttacks == 1
MaxLogs    == 2

\* a postMessage to the parent that dispatches no event
ParentUnreached(msgs) == hostInbox

\* window.parent.postMessage(m, HOST_ORIGIN) from the outer frame: the
\* event is dispatched only if the parent's origin is the target origin
ToParent(msgs) ==
    IF parentOrigin = HOST_ORIGIN THEN hostInbox \o msgs ELSE hostInbox

\* sendStatus(status) and the relayed logs of the inner frame reach the
\* element as LOG messages, for which _onMessage dispatches a "log" event
\* and changes nothing of the element; they are not queued here.  The LOG
\* messages kept are the worker's "Network rules applied.".

\* this._iframe.contentWindow.postMessage(m, this._sandboxOrigin) from the
\* element: dispatched only to a window whose document has the sandbox
\* origin and whose script has installed the listener
ToIframe(q, msgs) ==
    IF iframe.doc = "outer" /\ sandboxOrigin = SandboxOrigin
      THEN q \o msgs ELSE q

FromHost(type, code, rules, ver, port) ==
    RelayMsg("parent", parentOrigin, type, code, rules, ver, port)

\* a port of the channel that has just been closed or replaced is no longer
\* the current one
Stale(q) ==
    [i \in 1..Len(q) |->
        IF q[i].port = "cur" THEN [q[i] EXCEPT !.port = "old"] ELSE q[i]]

StalePort(p) == IF p = "cur" THEN "old" ELSE p

NoAccepted == [source |-> "none", origin |-> <<>>, type |-> "none"]

(***************************************************************************)
(* Supervisor: the element                                                 *)
(***************************************************************************)
\* _stopHeartbeat without the clearInterval and the close() calls
StopsNothing(l) == l

\* _stopHeartbeat: the interval held is cleared, the channel held is closed
StopHeartbeat(l) ==
    [timers   |-> IF heartbeatIntervalId THEN l.timers - 1 ELSE l.timers,
     channels |-> IF heartbeatChannel THEN l.channels - 1 ELSE l.channels]

connectedCallback ==
    /\ ~connected
    /\ connected' = TRUE
    /\ iframe' = [iframe EXCEPT !.doc = "loading"]
    /\ UNCHANGED <<parentOrigin, hostRules, isResetting, resetTimers,
                   heartbeatIntervalId, heartbeatChannel, heartbeatFailures,
                   pendingPing, port1Inbox, pings, hostInbox, relayInbox,
                   innerFrameReady, executionQueue, pendingRules, syncQueue,
                   polling, innerLoaded, innerInbox, swState, swInbox,
                   swOutbox, heartbeatPort, swVer, issued, observed, ticks,
                   pongs, hbReset, calls, teardowns, provisions, acked,
                   accepted, attacks, networkRules, cache, inflight,
                   armedGen, early, discarded, emitted,
                   contextLogs, live>>

\* execute(code): the k-th call carries code k
execute ==
    /\ issued < MaxExec
    /\ issued' = issued + 1
    /\ early' = Append(early, iframe.doc # "none" /\ ~innerFrameReady)
    /\ relayInbox' =
         IF iframe.doc = "none" THEN relayInbox
         ELSE ToIframe(relayInbox,
                 <<FromHost("EXECUTE", issued + 1, EmptyRules, 0, "none")>>)
    /\ UNCHANGED <<parentOrigin, connected, iframe, hostRules, isResetting,
                   resetTimers, heartbeatIntervalId, heartbeatChannel,
                   heartbeatFailures, pendingPing, port1Inbox, pings,
                   hostInbox, innerFrameReady, executionQueue, pendingRules,
                   syncQueue, polling, innerLoaded, innerInbox, swState,
                   swInbox, swOutbox, heartbeatPort, swVer, observed, ticks,
                   pongs, hbReset, calls, teardowns, provisions, acked,
                   accepted, attacks, networkRules, cache, inflight,
                   armedGen, discarded, emitted,
                   contextLogs, live>>

\* execute(code) called with the code of the call before it
executeAgain ==
    /\ issued \in 1..(MaxExec - 1)
    /\ issued' = issued + 1
    /\ early' = Append(early, iframe.doc # "none" /\ ~innerFrameReady)
    /\ relayInbox' =
         IF iframe.doc = "none" THEN relayInbox
         ELSE ToIframe(relayInbox,
                 <<FromHost("EXECUTE", issued, EmptyRules, 0, "none")>>)
    /\ UNCHANGED <<parentOrigin, connected, iframe, hostRules, isResetting,
                   resetTimers, heartbeatIntervalId, heartbeatChannel,
                   heartbeatFailures, pendingPing, port1Inbox, pings,
                   hostInbox, innerFrameReady, executionQueue, pendingRules,
                   syncQueue, polling, innerLoaded, innerInbox, swState,
                   swInbox, swOutbox, heartbeatPort, swVer, observed, ticks,
                   pongs, hbReset, calls, teardowns, provisions, acked,
                   accepted, attacks, networkRules, cache, inflight,
                   armedGen, discarded, emitted,
                   contextLogs, live>>

\* _sendNetworkRules applied to the rules r (version v)
SendNetworkRules(q, r, v) ==
    IF iframe.doc = "none" THEN q
    ELSE ToIframe(q, <<FromHost("SET_NETWORK_RULES", 0, r, v, "none")>>)

setNetworkRules(rules) ==
    /\ hostRules.ver < MaxPolicy
    /\ hostRules' = [rules |-> rules, ver |-> hostRules.ver + 1]
    /\ relayInbox' = SendNetworkRules(relayInbox, rules, hostRules.ver + 1)
    /\ UNCHANGED <<parentOrigin, connected, iframe, isResetting, resetTimers,
                   heartbeatIntervalId, heartbeatChannel, heartbeatFailures,
                   pendingPing, port1Inbox, pings, hostInbox,
                   innerFrameReady, executionQueue, pendingRules, syncQueue,
                   polling, innerLoaded, innerInbox, swState, swInbox,
                   swOutbox, heartbeatPort, swVer, issued, observed, ticks,
                   pongs, hbReset, calls, teardowns, provisions, acked,
                   accepted, attacks, networkRules, cache, inflight,
                   armedGen, early, discarded, emitted,
                   contextLogs, live>>

\* let executionQueue = [] of a newly loaded outer frame; q is the queue of
\* the frame before it, which went with its window
QueueSurvives(q) == q

FreshQueue(q) == <<>>

\* this._isResetting = false in the timer callback of reset()
ResetUnfinished == FALSE

ResetFinished == TRUE

\* if (this._isResetting) return
ResetGuardOff == FALSE

ResetGuard == isResetting

\* The body of reset() after the guard: the heartbeat is stopped, the
\* iframe (with both frames in it) is removed and a new one attached, the
\* 100 ms timer is set.
ResetBody ==
    /\ isResetting' = TRUE
    /\ live' = StopHeartbeat(live)
    /\ heartbeatIntervalId' = FALSE
    /\ heartbeatChannel' = FALSE
    /\ port1Inbox' = <<>>
    /\ pings' = 0
    /\ heartbeatPort' = StalePort(heartbeatPort)
    /\ swInbox' = Stale(swInbox)
    /\ iframe' = [gen |-> iframe.gen + 1, doc |-> "blank", src |-> Absent]
    /\ relayInbox' = <<>>
    /\ innerFrameReady' = FALSE
    /\ executionQueue' = FreshQueue(executionQueue)
    /\ discarded' = discarded \cup
                       {executionQueue[i] : i \in DOMAIN executionQueue}
    /\ pendingRules' = Absent
    /\ syncQueue' = <<>>
    /\ polling' = "off"
    /\ innerLoaded' = FALSE
    /\ innerInbox' = <<>>
    /\ resetTimers' = resetTimers + 1
    /\ teardowns' = teardowns + 1

\* disconnectedCallback: the listener is removed and the heartbeat stopped.
\* The iframe leaves the document with the element, so both frames in it
\* are discarded; connectedCallback gives it its src again.
disconnectedCallback ==
    /\ connected
    /\ iframe.gen < MaxGen
    /\ connected' = FALSE
    /\ live' = StopHeartbeat(live)
    /\ heartbeatIntervalId' = FALSE
    /\ heartbeatChannel' = FALSE
    /\ port1Inbox' = <<>>
    /\ pings' = 0
    /\ heartbeatPort' = StalePort(heartbeatPort)
    /\ swInbox' = Stale(swInbox)
    /\ iframe' = [iframe EXCEPT !.gen = @ + 1, !.doc = "none"]
    /\ relayInbox' = <<>>
    /\ innerFrameReady' = FALSE
    /\ executionQueue' = FreshQueue(executionQueue)
    /\ discarded' = discarded \cup
                       {executionQueue[i] : i \in DOMAIN executionQueue}
    /\ pendingRules' = Absent
    /\ syncQueue' = <<>>
    /\ polling' = "off"
    /\ innerLoaded' = FALSE
    /\ innerInbox' = <<>>
    /\ UNCHANGED <<parentOrigin, hostRules, isResetting, resetTimers,
                   heartbeatFailures, pendingPing, hostInbox, swState,
                   swOutbox, swVer, issued, observed, ticks, pongs, hbReset,
                   calls, teardowns, provisions, acked, accepted, attacks,
                   networkRules, cache, inflight, armedGen, early, emitted,
                   contextLogs>>

\* a message event on the host window while the element's listener is
\* removed: no handler of the element runs
MessageUnheard ==
    /\ ~connected
    /\ hostInbox # <<>>
    /\ hostInbox' = Tail(hostInbox)
    /\ UNCHANGED <<parentOrigin, connected, iframe, hostRules, isResetting,
                   resetTimers, heartbeatIntervalId, heartbeatChannel,
                   heartbeatFailures, pendingPing, port1Inbox, pings,
                   relayInbox, innerFrameReady, executionQueue, pendingRules,
                   syncQueue, polling, innerLoaded, innerInbox, swState,
                   swInbox, swOutbox, heartbeatPort, swVer, issued, observed,
                   ticks, pongs, hbReset, calls, teardowns, provisions,
                   acked, accepted, attacks, networkRules, cache, inflight,
                   armedGen, early, discarded, emitted, contextLogs, live>>

\* reset() called by the host application; calls counts the calls of
\* reset() since the last rebuild
reset ==
    /\ calls < MaxCalls
    /\ connected
    /\ isResetting \/ iframe.gen < MaxGen
    /\ calls' = calls + 1
    /\ IF ResetGuard
         THEN UNCHANGED <<isResetting, heartbeatIntervalId, heartbeatChannel,
                          port1Inbox, pings, heartbeatPort, swInbox, iframe,
                          relayInbox, innerFrameReady, executionQueue,
                          pendingRules, syncQueue, polling, innerLoaded,
                          innerInbox, resetTimers, teardowns,
                          discarded, live>>
         ELSE ResetBody
    /\ UNCHANGED <<parentOrigin, connected, hostRules, heartbeatFailures,
                   pendingPing, hostInbox, swState, swOutbox, swVer, issued,
                   observed, ticks, pongs, hbReset, provisions, acked,
                   accepted, attacks, networkRules, cache, inflight,
                   armedGen, early, emitted, contextLogs>>

\* the setTimeout(..., 100) callback of reset(): _updateIframeSource (an
\* iframe that is in no document loads nothing)
ResetTimeout ==
    /\ resetTimers > 0
    /\ resetTimers' = resetTimers - 1
    /\ isResetting' = ~ResetFinished
    /\ calls' = 0
    /\ provisions' = provisions + 1
    /\ iframe' = [iframe EXCEPT !.doc = IF connected THEN "loading" ELSE @]
    /\ relayInbox' = <<>>
    /\ innerFrameReady' = FALSE
    /\ executionQueue' = FreshQueue(executionQueue)
    /\ pendingRules' = Absent
    /\ syncQueue' = <<>>
    /\ polling' = "off"
    /\ innerLoaded' = FALSE
    /\ innerInbox' = <<>>
    /\ UNCHANGED <<parentOrigin, connected, hostRules, heartbeatIntervalId,
                   heartbeatChannel, heartbeatFailures, pendingPing,
                   port1Inbox, pings, hostInbox, swState, swInbox, swOutbox,
                   heartbeatPort, swVer, issued, observed, ticks, pongs,
                   hbReset, teardowns, acked, accepted, attacks,
                   networkRules, cache, inflight,
                   armedGen, early, discarded, emitted,
                   contextLogs, live>>

\* if (this._heartbeatFailures >= 5)
ThresholdPassed(failures) == failures > Threshold

ThresholdReached(failures) == failures >= Threshold

\* The setInterval(..., 2000) callback of _startHeartbeat.  The 100 ms timer
\* of a reset set before the interval expires before the interval's first
\* tick, so no tick runs while that timer is pending.
HeartbeatTick ==
    /\ heartbeatIntervalId
    /\ resetTimers = 0
    /\ ticks < MaxTicks
    /\ iframe.gen <= MaxGen
    /\ ticks' = ticks + 1
    /\ emitted' = "none"
    /\ LET failures == IF pendingPing THEN heartbeatFailures + 1
                                      ELSE heartbeatFailures
       IN  /\ heartbeatFailures' = failures
           /\ IF pendingPing /\ ThresholdReached(failures)
                THEN /\ hbReset' = ticks + 1
                     /\ calls' = calls + 1
                     /\ IF ResetGuard
                          THEN UNCHANGED <<isResetting, heartbeatIntervalId,
                                  heartbeatChannel, port1Inbox, pings,
                                  heartbeatPort, swInbox, iframe, relayInbox,
                                  innerFrameReady, executionQueue,
                                  pendingRules, syncQueue, polling,
                                  innerLoaded, innerInbox, resetTimers,
                                  teardowns, discarded, live>>
                          ELSE ResetBody
                     /\ UNCHANGED pendingPing
                ELSE /\ pendingPing' = TRUE
                     /\ pings' = IF heartbeatChannel THEN pings + 1 ELSE pings
                     /\ UNCHANGED <<hbReset, calls, isResetting,
                                    heartbeatIntervalId, heartbeatChannel,
                                    port1Inbox, heartbeatPort, swInbox,
                                    iframe, relayInbox, innerFrameReady,
                                    executionQueue, pendingRules, syncQueue,
                                    polling, innerLoaded, innerInbox,
                                    resetTimers, teardowns, discarded,
                                    live>>
    /\ UNCHANGED <<parentOrigin, connected, hostRules, hostInbox, swState,
                   swOutbox, swVer, issued, observed, pongs, provisions,
                   acked, accepted, attacks, networkRules, cache, inflight,
                   armedGen, early, contextLogs>>

\* if (event.data === "PONG")
PongMissed(data) == FALSE

PongTaken(data) == data = "PONG"

\* port1.onmessage of the current channel
Port1OnMessage ==
    /\ port1Inbox # <<>>
    /\ port1Inbox' = Tail(port1Inbox)
    /\ IF PongTaken(Head(port1Inbox))
         THEN /\ pendingPing' = FALSE
              /\ heartbeatFailures' = 0
              /\ pongs' = 1
         ELSE UNCHANGED <<pendingPing, heartbeatFailures, pongs>>
    /\ UNCHANGED <<parentOrigin, connected, iframe, hostRules, isResetting,
                   resetTimers, heartbeatIntervalId, heartbeatChannel, pings,
                   hostInbox, relayInbox, innerFrameReady, executionQueue,
                   pendingRules, syncQueue, polling, innerLoaded, innerInbox,
                   swState, swInbox, swOutbox, heartbeatPort, swVer, issued,
                   observed, ticks, hbReset, calls, teardowns, provisions,
                   acked, accepted, attacks, networkRules, cache, inflight,
                   armedGen, early, discarded, emitted,
                   contextLogs, live>>

\* if (event.origin !== this._sandboxOrigin) return
OriginUnchecked(m) == FALSE

OriginRejected(m) == m.origin # sandboxOrigin

\* _sendNetworkRules reads this._networkRules at the time it is called
RulesAtConstruction == [rules |-> EmptyRules, ver |-> 0]

RulesToSend == hostRules

\* _onMessage: the element's window "message" listener.  READY dispatches
\* "ready", resends the rules and (re)starts the heartbeat: the old channel
\* is closed, a new one made, its port2 posted to the iframe.
OnMessage ==
    /\ connected
    /\ hostInbox # <<>>
    /\ hostInbox' = Tail(hostInbox)
    /\ LET m == Head(hostInbox)
       IN  IF OriginRejected(m)
             THEN /\ UNCHANGED <<relayInbox, heartbeatIntervalId,
                      heartbeatChannel, heartbeatFailures, pendingPing,
                      port1Inbox, pings, heartbeatPort, swInbox, ticks,
                      pongs, hbReset, acked, armedGen, contextLogs, live>>
                  /\ emitted' = "none"
           ELSE IF m.type = "READY"
             THEN /\ relayInbox' =
                       IF iframe.doc = "none" THEN relayInbox
                       ELSE ToIframe(Stale(relayInbox),
                              <<FromHost("SET_NETWORK_RULES", 0,
                                         RulesToSend.rules, RulesToSend.ver,
                                         "none"),
                                FromHost("REGISTER_HEARTBEAT_PORT", 0,
                                         EmptyRules, 0, "cur")>>)
                  /\ live' = [timers   |-> StopHeartbeat(live).timers + 1,
                               channels |-> StopHeartbeat(live).channels + 1]
                  /\ heartbeatIntervalId' = TRUE
                  /\ heartbeatChannel' = TRUE
                  /\ heartbeatFailures' = 0
                  /\ pendingPing' = FALSE
                  /\ port1Inbox' = <<>>
                  /\ pings' = 0
                  /\ heartbeatPort' = StalePort(heartbeatPort)
                  /\ swInbox' = Stale(swInbox)
                  /\ ticks' = 0
                  /\ pongs' = 0
                  /\ hbReset' = 0
                  /\ armedGen' = m.gen
                  /\ emitted' = "ready"
                  /\ UNCHANGED <<acked, contextLogs>>
           ELSE /\ acked' = IF m.type = "LOG"
                               /\ m.text = "Network rules applied."
                              THEN m.ver ELSE acked
                /\ emitted' = IF m.type = "LOG" THEN "log" ELSE "message"
                /\ contextLogs' =
                     IF m.type = "LOG" /\ m.text = "console"
                       THEN [contextLogs EXCEPT !.heard = Append(@, m.ver)]
                       ELSE contextLogs
                /\ UNCHANGED <<relayInbox, heartbeatIntervalId,
                      heartbeatChannel, heartbeatFailures, pendingPing,
                      port1Inbox, pings, heartbeatPort, swInbox, ticks,
                      pongs, hbReset, armedGen, live>>
    /\ UNCHANGED <<parentOrigin, connected, iframe, hostRules, isResetting,
                   resetTimers, innerFrameReady, executionQueue,
                   pendingRules, syncQueue, polling, innerLoaded, innerInbox,
                   swState, swOutbox, swVer, issued, observed, calls,
                   teardowns, provisions, accepted, attacks, networkRules,
                   cache, inflight,
                   early, discarded>>

(***************************************************************************)
(* Relay: the outer frame                                                  *)
(***************************************************************************)
\* The outer-frame script runs: the inner frame is given its src, the
\* worker is registered, the listeners are installed.
OuterFrameLoad ==
    /\ iframe.doc = "loading"
    /\ iframe' = [iframe EXCEPT !.doc = "outer"]
    /\ relayInbox' = <<>>
    /\ innerFrameReady' = FALSE
    /\ executionQueue' = FreshQueue(executionQueue)
    /\ pendingRules' = Absent
    /\ syncQueue' = <<>>
    /\ polling' = "register"
    /\ innerLoaded' = FALSE
    /\ innerInbox' = <<>>
    /\ swState' = IF swState = "none" THEN "installing" ELSE swState
    /\ UNCHANGED <<parentOrigin, connected, hostRules, isResetting,
                   resetTimers, heartbeatIntervalId, heartbeatChannel,
                   heartbeatFailures, pendingPing, port1Inbox, pings,
                   hostInbox, swInbox, swOutbox, heartbeatPort, swVer,
                   issued, observed, ticks, pongs, hbReset, calls, teardowns,
                   provisions, acked, accepted, attacks, networkRules, cache,
                   inflight,
                   armedGen, early, discarded, emitted,
                   contextLogs, live>>

\* register(...).then: "SW: registered", then the first checkState()
RegisterResolved ==
    /\ iframe.doc = "outer"
    /\ polling = "register"
    /\ IF swState = "active"
         THEN /\ polling' = "off"
              /\ hostInbox' = ToParent(<<HostMsg(SandboxOrigin, "READY", "",
                                                 0, iframe.gen)>>)
         ELSE /\ polling' = "poll"
              /\ UNCHANGED hostInbox
    /\ UNCHANGED <<parentOrigin, connected, iframe, hostRules, isResetting,
                   resetTimers, heartbeatIntervalId, heartbeatChannel,
                   heartbeatFailures, pendingPing, port1Inbox, pings,
                   relayInbox, innerFrameReady, executionQueue, pendingRules,
                   syncQueue, innerLoaded, innerInbox, swState, swInbox,
                   swOutbox, heartbeatPort, swVer, issued, observed, ticks,
                   pongs, hbReset, calls, teardowns, provisions, acked,
                   accepted, attacks, networkRules, cache, inflight,
                   armedGen, early, discarded, emitted,
                   contextLogs, live>>

\* a later checkState() that finds reg.active
CheckState ==
    /\ iframe.doc = "outer"
    /\ polling = "poll"
    /\ swState = "active"
    /\ polling' = "off"
    /\ hostInbox' = ToParent(<<HostMsg(SandboxOrigin, "READY", "", 0,
                                       iframe.gen)>>)
    /\ UNCHANGED <<parentOrigin, connected, iframe, hostRules, isResetting,
                   resetTimers, heartbeatIntervalId, heartbeatChannel,
                   heartbeatFailures, pendingPing, port1Inbox, pings,
                   relayInbox, innerFrameReady, executionQueue, pendingRules,
                   syncQueue, innerLoaded, innerInbox, swState, swInbox,
                   swOutbox, heartbeatPort, swVer, issued, observed, ticks,
                   pongs, hbReset, calls, teardowns, provisions, acked,
                   accepted, attacks, networkRules, cache, inflight,
                   armedGen, early, discarded, emitted,
                   contextLogs, live>>

\* syncRulesWithSW(rules): navigator.serviceWorker.ready.then(callback).
\* The callbacks run in the order of the calls: at once (in the microtasks
\* of the calling handler) if the promise is resolved and none is waiting,
\* else when it resolves.
\* The tag under which the outer frame posts rules to the worker.  The
\* outer-frame source at hand posts them as "UPDATE_RULES", a tag the
\* worker's message handler at hand has no branch for; the hand-over is
\* modelled with the tag that handler takes.
RulesTag == "SET_NETWORK_RULES"

ToWorker(rules, ver) == WorkerMsg(RulesTag, rules, ver, "none")

SyncNow == swState = "active" /\ syncQueue = <<>>

\* const worker = registration.active; if (worker) ...: the promise has
\* resolved (checkState has seen reg.active) and the registration has been
\* removed since, so the callback posts nothing
SyncSkipped == swState = "none" /\ polling = "off" /\ syncQueue = <<>>

\* The worker activates and claims its clients; a loaded outer frame gets
\* "controllerchange" and syncs window.pendingRules.
WorkerActivate ==
    /\ swState = "installing"
    /\ swState' = "active"
    /\ syncQueue' = IF iframe.doc = "outer" /\ IsSet(pendingRules)
                      THEN Append(syncQueue, pendingRules[1])
                      ELSE syncQueue
    /\ UNCHANGED <<parentOrigin, connected, iframe, hostRules, isResetting,
                   resetTimers, heartbeatIntervalId, heartbeatChannel,
                   heartbeatFailures, pendingPing, port1Inbox, pings,
                   hostInbox, relayInbox, innerFrameReady, executionQueue,
                   pendingRules, polling, innerLoaded, innerInbox, swInbox,
                   swOutbox, heartbeatPort, swVer, issued, observed, ticks,
                   pongs, hbReset, calls, teardowns, provisions, acked,
                   accepted, attacks, networkRules, cache, inflight,
                   armedGen, early, discarded, emitted,
                   contextLogs, live>>

\* serviceWorker.ready resolves: the waiting callbacks post their rules,
\* or nothing if the registration has been removed since
RulesSynced ==
    /\ iframe.doc = "outer"
    /\ syncQueue # <<>>
    /\ swState = "active" \/ (swState = "none" /\ polling = "off")
    /\ syncQueue' = <<>>
    /\ swInbox' = IF swState = "none" THEN swInbox
                  ELSE swInbox \o
                       [i \in 1..Len(syncQueue) |->
                           ToWorker(syncQueue[i].rules, syncQueue[i].ver)]
    /\ UNCHANGED <<parentOrigin, connected, iframe, hostRules, isResetting,
                   resetTimers, heartbeatIntervalId, heartbeatChannel,
                   heartbeatFailures, pendingPing, port1Inbox, pings,
                   hostInbox, relayInbox, innerFrameReady, executionQueue,
                   pendingRules, polling, innerLoaded, innerInbox, swState,
                   swOutbox, heartbeatPort, swVer, issued, observed, ticks,
                   pongs, hbReset, calls, teardowns, provisions, acked,
                   accepted, attacks, networkRules, cache, inflight,
                   armedGen, early, discarded, emitted,
                   contextLogs, live>>

\* The outer frame hands the heartbeat port on to the worker.  The outer-frame
\* source at hand has no branch for REGISTER_HEARTBEAT_PORT; the worker's
\* handler for it is only reachable through this hand-over.
ForwardHeartbeatPort(q, m) ==
    IF swState = "none" THEN q
    ELSE Append(q, WorkerMsg("REGISTER_HEARTBEAT_PORT", EmptyRules, 0,
                             m.port))

\* while (executionQueue.length > 0) post(executionQueue.shift())
QueueKept(q) == q

QueueAfterFlush(q) == <<>>

\* a dispatch that takes every message for the host's
TakenFromAnyWindow(m) == TRUE

\* the host branch is taken
TakenAsHost(m) ==
    \/ m.source = "parent"
    \/ (m.origin = HOST_ORIGIN /\ m.source # "inner")

\* registration.unregister(): the worker goes, and its module state (rules,
\* heartbeat port, queued events) with it
WorkerGone ==
    /\ swState' = "none"
    /\ heartbeatPort' = "none"
    /\ swInbox' = <<>>
    /\ swOutbox' = <<>>
    /\ swVer' = 0
    /\ networkRules' = DefaultRules

\* what the outer frame's RESET branch alone changes of the worker
workerState == <<swState, swOutbox, heartbeatPort, swVer, networkRules>>

\* The outer frame's window "message" listener.  In the RESET branch the
\* registrations are unregistered and RESET_COMPLETE is posted from promise
\* callbacks; they are taken with the handler.
OuterOnMessage ==
    /\ iframe.doc = "outer"
    /\ relayInbox # <<>>
    /\ relayInbox' = Tail(relayInbox)
    /\ LET m == Head(relayInbox)
       IN  IF TakenAsHost(m)
             THEN /\ accepted' = [source |-> m.source, origin |-> m.origin,
                                  type |-> m.type]
                  /\ IF m.type = "EXECUTE"
                       THEN /\ IF innerFrameReady
                                 THEN /\ innerInbox' = Append(innerInbox, m.code)
                                      /\ UNCHANGED executionQueue
                                 ELSE /\ executionQueue' =
                                            Append(executionQueue, m.code)
                                      /\ UNCHANGED innerInbox
                            /\ UNCHANGED <<pendingRules, syncQueue, swInbox,
                                           hostInbox, workerState>>
                     ELSE IF m.type = "SET_NETWORK_RULES"
                       THEN /\ pendingRules' =
                                 Some([rules |-> m.rules, ver |-> m.ver])
                            /\ IF SyncNow
                                 THEN /\ swInbox' = Append(swInbox,
                                            ToWorker(m.rules, m.ver))
                                      /\ UNCHANGED syncQueue
                                 ELSE IF SyncSkipped
                                 THEN UNCHANGED <<swInbox, syncQueue>>
                                 ELSE /\ syncQueue' = Append(syncQueue,
                                            [rules |-> m.rules, ver |-> m.ver])
                                      /\ UNCHANGED swInbox
                            /\ UNCHANGED <<innerInbox, executionQueue,
                                           hostInbox, workerState>>
                     ELSE IF m.type = "REGISTER_HEARTBEAT_PORT"
                       THEN /\ swInbox' = ForwardHeartbeatPort(swInbox, m)
                            /\ UNCHANGED <<innerInbox, executionQueue,
                                           pendingRules, syncQueue,
                                           hostInbox, workerState>>
                     ELSE IF m.type = "RESET"
                       THEN /\ WorkerGone
                            /\ hostInbox' = ToParent(
                                 <<HostMsg(SandboxOrigin, "RESET_COMPLETE",
                                           "", 0, iframe.gen)>>)
                            /\ UNCHANGED <<innerInbox, executionQueue,
                                           pendingRules, syncQueue>>
                     ELSE UNCHANGED <<innerInbox, executionQueue,
                                      pendingRules, syncQueue, swInbox,
                                      hostInbox, workerState>>
                  /\ UNCHANGED innerFrameReady
           ELSE IF m.source = "inner"
             THEN /\ IF m.type = "READY"
                       THEN /\ innerFrameReady' = TRUE
                            /\ innerInbox' = innerInbox \o executionQueue
                            /\ executionQueue' = QueueAfterFlush(executionQueue)
                            /\ hostInbox' = ToParent(
                                 <<HostMsg(SandboxOrigin, "READY", "", 0,
                                           iframe.gen)>>)
                     ELSE IF m.type = "LOG"
                       THEN /\ hostInbox' = ToParent(
                                 <<HostMsg(SandboxOrigin, "LOG", "console",
                                           m.code, iframe.gen)>>)
                            /\ UNCHANGED <<innerFrameReady, innerInbox,
                                           executionQueue>>
                     ELSE UNCHANGED <<innerFrameReady, innerInbox,
                                      executionQueue, hostInbox>>
                  /\ UNCHANGED <<accepted, pendingRules, syncQueue, swInbox,
                                 workerState>>
           ELSE UNCHANGED <<accepted, innerFrameReady, innerInbox,
                            executionQueue, hostInbox, pendingRules,
                            syncQueue, swInbox, workerState>>
    /\ UNCHANGED <<parentOrigin, connected, iframe, hostRules, isResetting,
                   resetTimers, heartbeatIntervalId, heartbeatChannel,
                   heartbeatFailures, pendingPing, port1Inbox, pings,
                   polling, innerLoaded, issued, observed, ticks, pongs,
                   hbReset, calls, teardowns, provisions, acked, attacks,
                   cache, inflight,
                   armedGen, early, discarded, emitted,
                   contextLogs, live>>

(***************************************************************************)
(* Execution context: the inner frame                                      *)
(***************************************************************************)
\* The inner-frame script runs: READY is posted to the outer frame.
InnerFrameLoad ==
    /\ iframe.doc = "outer"
    /\ ~innerLoaded
    /\ innerLoaded' = TRUE
    /\ relayInbox' = Append(relayInbox,
         RelayMsg("inner", SandboxOrigin, "READY", 0, EmptyRules, 0, "none"))
    /\ UNCHANGED <<parentOrigin, connected, iframe, hostRules, isResetting,
                   resetTimers, heartbeatIntervalId, heartbeatChannel,
                   heartbeatFailures, pendingPing, port1Inbox, pings,
                   hostInbox, innerFrameReady, executionQueue, pendingRules,
                   syncQueue, polling, innerInbox, swState, swInbox,
                   swOutbox, heartbeatPort, swVer, issued, observed, ticks,
                   pongs, hbReset, calls, teardowns, provisions, acked,
                   accepted, attacks, networkRules, cache, inflight,
                   armedGen, early, discarded, emitted,
                   contextLogs, live>>

\* the inner frame's "message" listener runs an EXECUTE
InnerOnMessage ==
    /\ innerLoaded
    /\ innerInbox # <<>>
    /\ innerInbox' = Tail(innerInbox)
    /\ observed' = Append(observed,
                     [gen |-> iframe.gen, code |-> Head(innerInbox)])
    /\ UNCHANGED <<parentOrigin, connected, iframe, hostRules, isResetting,
                   resetTimers, heartbeatIntervalId, heartbeatChannel,
                   heartbeatFailures, pendingPing, port1Inbox, pings,
                   hostInbox, relayInbox, innerFrameReady, executionQueue,
                   pendingRules, syncQueue, polling, innerLoaded, swState,
                   swInbox, swOutbox, heartbeatPort, swVer, issued, ticks,
                   pongs, hbReset, calls, teardowns, provisions, acked,
                   accepted, attacks, networkRules, cache, inflight,
                   armedGen, early, discarded, emitted,
                   contextLogs, live>>

\* The proxied console of the inner frame posts a LOG message to the outer
\* frame: the k-th carries k.
ConsoleLog ==
    /\ innerLoaded
    /\ contextLogs.said < MaxLogs
    /\ contextLogs' = [contextLogs EXCEPT !.said = @ + 1]
    /\ relayInbox' = Append(relayInbox,
         RelayMsg("inner", SandboxOrigin, "LOG", contextLogs.said + 1,
                  EmptyRules, 0, "none"))
    /\ UNCHANGED <<parentOrigin, connected, iframe, hostRules, isResetting,
                   resetTimers, heartbeatIntervalId, heartbeatChannel,
                   heartbeatFailures, pendingPing, port1Inbox, pings,
                   hostInbox, innerFrameReady, executionQueue, pendingRules,
                   syncQueue, polling, innerLoaded, innerInbox, swState,
                   swInbox, swOutbox, heartbeatPort, swVer, issued, observed,
                   ticks, pongs, hbReset, calls, teardowns, provisions,
                   acked, accepted, attacks, networkRules, cache, inflight,
                   armedGen, early, discarded, emitted, live>>

\* Untrusted code posts to its parent: a second READY, or a message shaped
\* like a host command.
InnerPostsToRelay(type) ==
    /\ innerLoaded
    /\ attacks < MaxAttacks
    /\ attacks' = attacks + 1
    /\ relayInbox' = Append(relayInbox,
         RelayMsg("inner", SandboxOrigin, type, 0, OpenRules, 0, "none"))
    /\ UNCHANGED <<parentOrigin, connected, iframe, hostRules, isResetting,
                   resetTimers, heartbeatIntervalId, heartbeatChannel,
                   heartbeatFailures, pendingPing, port1Inbox, pings,
                   hostInbox, innerFrameReady, executionQueue, pendingRules,
                   syncQueue, polling, innerLoaded, innerInbox, swState,
                   swInbox, swOutbox, heartbeatPort, swVer, issued, observed,
                   ticks, pongs, hbReset, calls, teardowns, provisions,
                   acked, accepted, networkRules, cache, inflight,
                   armedGen, early, discarded, emitted,
                   contextLogs, live>>

\* Untrusted code posts a rules message to the worker that controls it
\* (navigator.serviceWorker.controller.postMessage), with the tag the
\* worker's handler takes.
InnerPostsToWorker ==
    /\ innerLoaded
    /\ swState = "active"
    /\ attacks < MaxAttacks
    /\ attacks' = attacks + 1
    /\ swInbox' = Append(swInbox,
                    WorkerMsg("SET_NETWORK_RULES", OpenRules, 0, "none"))
    /\ UNCHANGED <<parentOrigin, connected, iframe, hostRules, isResetting,
                   resetTimers, heartbeatIntervalId, heartbeatChannel,
                   heartbeatFailures, pendingPing, port1Inbox, pings,
                   hostInbox, relayInbox, innerFrameReady, executionQueue,
                   pendingRules, syncQueue, polling, innerLoaded, innerInbox,
                   swState, swOutbox, heartbeatPort, swVer, issued, observed,
                   ticks, pongs, hbReset, calls, teardowns, provisions,
                   acked, accepted, networkRules, cache, inflight,
                   armedGen, early, discarded, emitted,
                   contextLogs, live>>

(***************************************************************************)
(* Mediator: the worker's message side                                     *)
(***************************************************************************)
\* self "message"
WorkerOnMessage ==
    /\ swState # "none"
    /\ swInbox # <<>>
    /\ swInbox' = Tail(swInbox)
    /\ LET m == Head(swInbox)
       IN  /\ IF m.type = "SET_NETWORK_RULES"
                THEN /\ networkRules' = ReplacedBy(networkRules, m.rules)
                     /\ swVer' = m.ver
                     /\ swOutbox' = Append(swOutbox, m.ver)
                ELSE UNCHANGED <<networkRules, swVer, swOutbox>>
           /\ IF m.type = "REGISTER_HEARTBEAT_PORT" /\ m.port # "none"
                THEN /\ heartbeatPort' = m.port
                     /\ port1Inbox' =
                          IF m.port = "cur"
                            THEN Append(port1Inbox, "SW_HEARTBEAT_CONNECTED")
                            ELSE port1Inbox
                ELSE UNCHANGED <<heartbeatPort, port1Inbox>>
    /\ UNCHANGED <<parentOrigin, connected, iframe, hostRules, isResetting,
                   resetTimers, heartbeatIntervalId, heartbeatChannel,
                   heartbeatFailures, pendingPing, pings, hostInbox,
                   relayInbox, innerFrameReady, executionQueue, pendingRules,
                   syncQueue, polling, innerLoaded, innerInbox, swState,
                   issued, observed, ticks, pongs, hbReset, calls, teardowns,
                   provisions, acked, accepted, attacks, cache, inflight,
                   armedGen, early, discarded, emitted,
                   contextLogs, live>>

\* heartbeatPort.onmessage: PING is answered with PONG
WorkerPong ==
    /\ swState # "none"
    /\ heartbeatPort = "cur"
    /\ pings > 0
    /\ pings' = pings - 1
    /\ port1Inbox' = Append(port1Inbox, "PONG")
    /\ UNCHANGED <<parentOrigin, connected, iframe, hostRules, isResetting,
                   resetTimers, heartbeatIntervalId, heartbeatChannel,
                   heartbeatFailures, pendingPing, hostInbox, relayInbox,
                   innerFrameReady, executionQueue, pendingRules, syncQueue,
                   polling, innerLoaded, innerInbox, swState, swInbox,
                   swOutbox, heartbeatPort, swVer, issued, observed, ticks,
                   pongs, hbReset, calls, teardowns, provisions, acked,
                   accepted, attacks, networkRules, cache, inflight,
                   armedGen, early, discarded, emitted,
                   contextLogs, live>>

\* ipc.send of "Network rules applied." reaches the clients; both of the
\* outer frame's serviceWorker "message" listeners relay it to the parent.
WorkerLogDelivered ==
    /\ swOutbox # <<>>
    /\ swOutbox' = Tail(swOutbox)
    /\ hostInbox' =
         IF iframe.doc = "outer"
           THEN LET m == HostMsg(SandboxOrigin, "LOG",
                                 "Network rules applied.", Head(swOutbox),
                                 iframe.gen)
                IN  ToParent(<<m, m>>)
           ELSE hostInbox
    /\ UNCHANGED <<parentOrigin, connected, iframe, hostRules, isResetting,
                   resetTimers, heartbeatIntervalId, heartbeatChannel,
                   heartbeatFailures, pendingPing, port1Inbox, pings,
                   relayInbox, innerFrameReady, executionQueue, pendingRules,
                   syncQueue, polling, innerLoaded, innerInbox, swState,
                   swInbox, heartbeatPort, swVer, issued, observed, ticks,
                   pongs, hbReset, calls, teardowns, provisions, acked,
                   accepted, attacks, networkRules, cache, inflight,
                   armedGen, early, discarded, emitted,
                   contextLogs, live>>

\* A window other than the parent and the inner frame posts a message
\* shaped like a host command.
OtherWindowPosts(origin, type) ==
    /\ iframe.doc = "outer"
    /\ attacks < MaxAttacks
    /\ attacks' = attacks + 1
    /\ relayInbox' = Append(relayInbox,
         RelayMsg("other", origin, type, 0, OpenRules, 0, "none"))
    /\ UNCHANGED <<parentOrigin, connected, iframe, hostRules, isResetting,
                   resetTimers, heartbeatIntervalId, heartbeatChannel,
                   heartbeatFailures, pendingPing, port1Inbox, pings,
                   hostInbox, innerFrameReady, executionQueue, pendingRules,
                   syncQueue, polling, innerLoaded, innerInbox, swState,
                   swInbox, swOutbox, heartbeatPort, swVer, issued, observed,
                   ticks, pongs, hbReset, calls, teardowns, provisions,
                   acked, accepted, networkRules, cache, inflight,
                   armedGen, early, discarded, emitted,
                   contextLogs, live>>

\* A script of the embedding page posts {type: "RESET"} to the iframe's
\* window.
ParentPostsReset ==
    /\ iframe.doc = "outer"
    /\ attacks < MaxAttacks
    /\ attacks' = attacks + 1
    /\ relayInbox' = Append(relayInbox,
                        FromHost("RESET", 0, EmptyRules, 0, "none"))
    /\ UNCHANGED <<parentOrigin, connected, iframe, hostRules, isResetting,
                   resetTimers, heartbeatIntervalId, heartbeatChannel,
                   heartbeatFailures, pendingPing, port1Inbox, pings,
                   hostInbox, innerFrameReady, executionQueue, pendingRules,
                   syncQueue, polling, innerLoaded, innerInbox, swState,
                   swInbox, swOutbox, heartbeatPort, swVer, issued, observed,
                   ticks, pongs, hbReset, calls, teardowns, provisions,
                   acked, accepted, networkRules, cache, inflight,
                   armedGen, early, discarded, emitted,
                   contextLogs, live>>

\* Untrusted code, run once the outer frame has reported the worker active,
\* unregisters the worker of its origin (getRegistrations, then
\* unregister).  The tick count of an arming is capped at MaxTicks, so the
\* step is taken before the first tick of an arming, which leaves the
\* interval its ticks.
WorkerUnregistered ==
    /\ innerLoaded
    /\ swState = "active"
    /\ polling = "off"
    /\ ticks = 0
    /\ attacks < MaxAttacks
    /\ attacks' = attacks + 1
    /\ WorkerGone
    /\ UNCHANGED <<parentOrigin, connected, iframe, hostRules, isResetting,
                   resetTimers, heartbeatIntervalId, heartbeatChannel,
                   heartbeatFailures, pendingPing, port1Inbox, pings,
                   hostInbox, relayInbox, innerFrameReady, executionQueue,
                   pendingRules, syncQueue, polling, innerLoaded, innerInbox,
                   issued, observed, ticks, pongs, hbReset, calls, teardowns,
                   provisions, acked, accepted, cache, inflight, armedGen,
                   early, discarded, emitted,
                   contextLogs, live>>

\* Untrusted code that has unregistered the worker posts "READY" to its
\* parent again, as often as it likes (here: whenever what the READY before
\* set off has been handled).
InnerRepeatsReady ==
    /\ innerLoaded
    /\ swState = "none"
    /\ relayInbox = <<>> /\ hostInbox = <<>> /\ syncQueue = <<>>
    /\ relayInbox' = Append(relayInbox,
         RelayMsg("inner", SandboxOrigin, "READY", 0, EmptyRules, 0, "none"))
    /\ UNCHANGED <<parentOrigin, connected, iframe, hostRules, isResetting,
                   resetTimers, heartbeatIntervalId, heartbeatChannel,
                   heartbeatFailures, pendingPing, port1Inbox, pings,
                   hostInbox, innerFrameReady, executionQueue, pendingRules,
                   syncQueue, polling, innerLoaded, innerInbox, swState,
                   swInbox, swOutbox, heartbeatPort, swVer, issued, observed,
                   ticks, pongs, hbReset, calls, teardowns, provisions,
                   acked, accepted, attacks, networkRules, cache, inflight,
                   armedGen, early, discarded, emitted,
                   contextLogs, live>>

(***************************************************************************)
(* The element that puts the allow list into the URL of the outer frame    *)
(* (the server derives the CSP header from it) and sends only the virtual  *)
(* files to the worker; the worker that takes them.                        *)
(***************************************************************************)
\* _calculateIframeSrc: the allow parameter, set when the list is not empty
CalculateIframeSrc(rules) ==
    IF IsSet(rules.allow) /\ rules.allow[1] # {} THEN rules.allow ELSE Absent

\* _sendVirtualFiles: returns when this._networkRules.files is not set
SendVirtualFiles(q, r, v) ==
    IF iframe.doc = "none" \/ ~IsSet(r.files) THEN q
    ELSE ToIframe(q, <<FromHost("SET_NETWORK_RULES", 0,
                                [EmptyRules EXCEPT !.files = r.files], v,
                                "none")>>)

\* setNetworkRules(rules) of this element, called on the attached element:
\* a new URL navigates the iframe, the same URL sends the files
setNetworkRulesCsp(rules) ==
    /\ connected
    /\ hostRules.ver < MaxPolicy
    /\ hostRules' = [rules |-> rules, ver |-> hostRules.ver + 1]
    /\ IF iframe.src # CalculateIframeSrc(rules)
         THEN /\ iframe.gen < MaxGen
              /\ iframe' = [gen |-> iframe.gen + 1, doc |-> "loading",
                            src |-> CalculateIframeSrc(rules)]
              /\ relayInbox' = <<>>
              /\ innerFrameReady' = FALSE
              /\ executionQueue' = FreshQueue(executionQueue)
              /\ pendingRules' = Absent
              /\ syncQueue' = <<>>
              /\ polling' = "off"
              /\ innerLoaded' = FALSE
              /\ innerInbox' = <<>>
         ELSE /\ relayInbox' =
                   SendVirtualFiles(relayInbox, rules, hostRules.ver + 1)
              /\ UNCHANGED <<iframe, innerFrameReady, executionQueue,
                             pendingRules, syncQueue, polling, innerLoaded,
                             innerInbox>>
    /\ UNCHANGED <<parentOrigin, connected, isResetting, resetTimers,
                   heartbeatIntervalId, heartbeatChannel, heartbeatFailures,
                   pendingPing, port1Inbox, pings, hostInbox, swState,
                   swInbox, swOutbox, heartbeatPort, swVer, issued, observed,
                   ticks, pongs, hbReset, calls, teardowns, provisions,
                   acked, accepted, attacks, networkRules, cache, inflight,
                   armedGen, early, discarded, emitted,
                   contextLogs, live>>

\* _onMessage of this element: READY dispatches "ready" and sends the files
OnMessageCsp ==
    /\ connected
    /\ hostInbox # <<>>
    /\ hostInbox' = Tail(hostInbox)
    /\ LET m == Head(hostInbox)
       IN  IF OriginRejected(m)
             THEN /\ emitted' = "none"
                  /\ UNCHANGED <<relayInbox, acked, armedGen, contextLogs>>
           ELSE IF m.type = "READY"
             THEN /\ relayInbox' = SendVirtualFiles(relayInbox,
                                       hostRules.rules, hostRules.ver)
                  /\ armedGen' = m.gen
                  /\ emitted' = "ready"
                  /\ UNCHANGED <<acked, contextLogs>>
           ELSE /\ acked' = IF m.type = "LOG" THEN m.ver ELSE acked
                /\ emitted' = IF m.type = "LOG" THEN "log" ELSE "message"
                /\ contextLogs' =
                     IF m.type = "LOG" /\ m.text = "console"
                       THEN [contextLogs EXCEPT !.heard = Append(@, m.ver)]
                       ELSE contextLogs
                /\ UNCHANGED <<relayInbox, armedGen>>
    /\ UNCHANGED <<parentOrigin, connected, iframe, hostRules, isResetting,
                   resetTimers, heartbeatIntervalId, heartbeatChannel,
                   heartbeatFailures, pendingPing, port1Inbox, pings,
                   innerFrameReady, executionQueue, pendingRules, syncQueue,
                   polling, innerLoaded, innerInbox, swState, swInbox,
                   swOutbox, heartbeatPort, swVer, issued, observed, ticks,
                   pongs, hbReset, calls, teardowns, provisions, accepted,
                   attacks, networkRules, cache, inflight, early,
                   discarded, live>>

\* The message handler of this element's worker: the rules message of the
\* outer frame replaces virtualFiles when it carries files (currentRules is
\* read for the text of the log line only), then the log line is sent.
WorkerOnMessageCsp ==
    /\ swState # "none"
    /\ swInbox # <<>>
    /\ swInbox' = Tail(swInbox)
    /\ LET m == Head(swInbox)
       IN  IF m.type = RulesTag
             THEN /\ networkRules' =
                       [networkRules EXCEPT
                          !.files = IF IsSet(m.rules.files)
                                      THEN m.rules.files[1] ELSE @]
                  /\ swVer' = m.ver
                  /\ swOutbox' = Append(swOutbox, m.ver)
             ELSE UNCHANGED <<networkRules, swVer, swOutbox>>
    /\ UNCHANGED <<parentOrigin, connected, iframe, hostRules, isResetting,
                   resetTimers, heartbeatIntervalId, heartbeatChannel,
                   heartbeatFailures, pendingPing, port1Inbox, pings,
                   hostInbox, relayInbox, innerFrameReady, executionQueue,
                   pendingRules, syncQueue, polling, innerLoaded, innerInbox,
                   swState, heartbeatPort, issued, observed, ticks, pongs,
                   hbReset, calls, teardowns, provisions, acked, accepted,
                   attacks, cache, inflight, armedGen, early, discarded,
                   emitted,
                   contextLogs, live>>

\* A window of another origin posts a message to the page that holds the
\* element, shaped like one the outer frame sends.
ForeignWindowPosts(type) ==
    /\ connected
    /\ attacks < MaxAttacks
    /\ attacks' = attacks + 1
    /\ hostInbox' = Append(hostInbox,
         HostMsg(ForeignOrigin, type, "Network rules applied.", MaxPolicy,
                 iframe.gen))
    /\ UNCHANGED <<parentOrigin, connected, iframe, hostRules, isResetting,
                   resetTimers, heartbeatIntervalId, heartbeatChannel,
                   heartbeatFailures, pendingPing, port1Inbox, pings,
                   relayInbox, innerFrameReady, executionQueue, pendingRules,
                   syncQueue, polling, innerLoaded, innerInbox, swState,
                   swInbox, swOutbox, heartbeatPort, swVer, issued, observed,
                   ticks, pongs, hbReset, calls, teardowns, provisions,
                   acked, accepted, networkRules, cache, inflight,
                   armedGen, early, discarded, emitted,
                   contextLogs, live>>

(***************************************************************************)
(* Specifications                                                          *)
(***************************************************************************)
InitSystem ==
    /\ parentOrigin \in {HostOrigin, ForeignOrigin}
    /\ connected = FALSE
    /\ iframe = [gen |-> 1, doc |-> "none", src |-> Absent]
    /\ hostRules = [rules |-> EmptyRules, ver |-> 0]
    /\ isResetting = FALSE
    /\ resetTimers = 0
    /\ heartbeatIntervalId = FALSE
    /\ heartbeatChannel = FALSE
    /\ heartbeatFailures = 0
    /\ pendingPing = FALSE
    /\ port1Inbox = <<>>
    /\ pings = 0
    /\ hostInbox = <<>>
    /\ relayInbox = <<>>
    /\ innerFrameReady = FALSE
    /\ executionQueue = <<>>
    /\ pendingRules = Absent
    /\ syncQueue = <<>>
    /\ polling = "off"
    /\ innerLoaded = FALSE
    /\ innerInbox = <<>>
    /\ swState = "none"
    /\ swInbox = <<>>
    /\ swOutbox = <<>>
    /\ heartbeatPort = "none"
    /\ swVer = 0
    /\ issued = 0
    /\ observed = <<>>
    /\ ticks = 0
    /\ pongs = 0
    /\ hbReset = 0
    /\ calls = 0
    /\ teardowns = 0
    /\ provisions = 0
    /\ acked = 0
    /\ accepted = NoAccepted
    /\ attacks = 0
    /\ armedGen = 0
    /\ early = <<>>
    /\ discarded = {}
    /\ emitted = "none"
    /\ contextLogs = [said |-> 0, heard |-> <<>>]
    /\ live = [timers |-> 0, channels |-> 0]

InitMediator ==
    /\ networkRules = DefaultRules
    /\ cache = ASSETS_TO_CACHE
    /\ inflight = Idle

NextMediator ==
    \/ \E rules \in RuleInputs : SetNetworkRules(rules)
    \/ \E r \in Requests : FetchEvent(r)
    \/ ServeVirtual
    \/ InnerFrameMatch
    \/ \E o \in FetchOutcomes : FetchReturned(o)
    \/ CacheFirstMatch
    \/ \E o \in FetchOutcomes : NetworkFirstFetched(o)
    \/ NetworkFirstFallback
    \/ BlockSent
    \/ ForwardLogged
    \/ \E o \in FetchOutcomes : ForwardFetched(o)
    \/ SizeBlockSent
    \/ ForwardReleased
    \/ ErrorSent

Init == InitMediator /\ InitSystem

\* the steps every frame cycle takes by itself
Lifecycle ==
    \/ connectedCallback
    \/ OnMessage
    \/ OuterFrameLoad
    \/ RegisterResolved
    \/ CheckState
    \/ RulesSynced
    \/ OuterOnMessage
    \/ InnerFrameLoad
    \/ WorkerActivate
    \/ WorkerOnMessage
    \/ WorkerLogDelivered

Recovery ==
    \/ reset
    \/ ResetTimeout

Heartbeat ==
    \/ HeartbeatTick
    \/ Port1OnMessage
    \/ WorkerPong

OtherWindows ==
    \E origin \in {HOST_ORIGIN, ForeignOrigin} :
        \E type \in {"EXECUTE", "SET_NETWORK_RULES"} :
            OtherWindowPosts(origin, type)

\* command relay: execute() calls, the untrusted frame and other windows
\* posting to the outer frame
NextRelay ==
    \/ Lifecycle
    \/ execute
    \/ InnerOnMessage
    \/ InnerPostsToRelay("READY")
    \/ InnerPostsToRelay("EXECUTE")
    \/ OtherWindows

\* heartbeat and reset
NextHeartbeat ==
    \/ Lifecycle
    \/ Recovery
    \/ Heartbeat

\* rules updates: setNetworkRules() calls and the untrusted frame posting
\* to the worker
NextPolicy ==
    \/ Lifecycle
    \/ \E rules \in HostRuleChoices : setNetworkRules(rules)
    \/ InnerPostsToWorker

Next ==
    \/ NextRelay
    \/ NextHeartbeat
    \/ NextPolicy
    \/ NextMediator
    \/ WorkerUnregistered
    \/ InnerRepeatsReady
    \/ ParentPostsReset
    \/ \E type \in {"READY", "LOG"} : ForeignWindowPosts(type)
    \/ OnMessageCsp
    \/ WorkerOnMessageCsp
    \/ \E rules \in HostRuleChoices : setNetworkRulesCsp(rules)
    \/ executeAgain
    \/ ConsoleLog
    \/ disconnectedCallback
    \/ MessageUnheard
    \/ InnerPostsToRelay("SET_NETWORK_RULES")
    \/ InnerPostsToRelay("RESET")

SpecRelay == Init /\ [][NextRelay]_vars

SpecHeartbeat == Init /\ [][NextHeartbeat]_vars

SpecPolicy == Init /\ [][NextPolicy]_vars

Spec == Init /\ [][Next]_vars

\* the worker's fetch side, under a page of the expected host origin
InitHosted == Init /\ parentOrigin = HOST_ORIGIN

SpecMediator == InitHosted /\ [][NextMediator]_vars

\* an interval tick that finds the worker gone
UnansweredTick == swState = "none" /\ HeartbeatTick

\* the rules object the host page passes in its k-th setNetworkRules call:
\* consecutive calls pass different objects
RulesOfCall(k) ==
    IF k % 2 = 1 THEN [EmptyRules EXCEPT !.allow = Some({ExampleCom})]
                 ELSE [EmptyRules EXCEPT !.files = Some(DemoFiles)]

\* reset() called by the host page, and the frame cycle; the 100 ms timer
\* of a reset fires once it is set
NextRebuild ==
    \/ Lifecycle
    \/ Recovery

SpecRebuild == Init /\ [][NextRebuild]_vars /\ WF_vars(ResetTimeout)

\* an execute() call the relay has to queue: the outer frame is loaded and
\* has not had the READY of its inner frame
QueuedExecute == iframe.doc = "outer" /\ ~innerFrameReady /\ execute

\* queued execute() calls across resets, under a page of the expected host
\* origin
NextRebuildExec ==
    \/ Lifecycle
    \/ Recovery
    \/ QueuedExecute
    \/ InnerOnMessage

SpecRebuildExec == InitHosted /\ [][NextRebuildExec]_vars

\* command relay with RESET messages from the embedding page
NextRelayReset ==
    \/ Lifecycle
    \/ execute
    \/ InnerOnMessage
    \/ ParentPostsReset

SpecRelayReset == InitHosted /\ [][NextRelayReset]_vars

\* every PING posted so far has been answered and its PONG handled
Answered ==
    /\ pings = 0
    /\ \A i \in DOMAIN port1Inbox : port1Inbox[i] # "PONG"

\* an interval tick that finds every PING answered
AnsweredTick == Answered /\ HeartbeatTick

\* heartbeat and reset with a worker that answers every PING before the
\* next tick
NextPrompt ==
    \/ Lifecycle
    \/ Recovery
    \/ AnsweredTick
    \/ Port1OnMessage
    \/ WorkerPong

SpecPrompt == Init /\ [][NextPrompt]_vars

\* rules updates across resets, under a page of the expected host origin
NextRebuildPolicy ==
    \/ Lifecycle
    \/ Recovery
    \/ setNetworkRules(RulesOfCall(hostRules.ver + 1))

SpecRebuildPolicy == InitHosted /\ [][NextRebuildPolicy]_vars

\* The kill switch against untrusted code: the worker may be unregistered
\* and READY repeated from the inner frame; reset() is called by the
\* heartbeat only.  The ticks looked at are those after the worker has
\* gone; a PING before that is taken as answered in time.
NextKillSwitch ==
    \/ Lifecycle
    \/ Port1OnMessage
    \/ UnansweredTick
    \/ ResetTimeout
    \/ WorkerUnregistered
    \/ InnerRepeatsReady

\* Every timer that is set fires, every queued event and every settled
\* promise is handled, every page that is loading loads.  Nothing is
\* required of what untrusted code does.
FairHandlers ==
    /\ WF_vars(connectedCallback)
    /\ WF_vars(OnMessage)
    /\ WF_vars(OuterFrameLoad)
    /\ WF_vars(RegisterResolved)
    /\ WF_vars(CheckState)
    /\ WF_vars(RulesSynced)
    /\ WF_vars(OuterOnMessage)
    /\ WF_vars(InnerFrameLoad)
    /\ WF_vars(WorkerActivate)
    /\ WF_vars(WorkerOnMessage)
    /\ WF_vars(WorkerLogDelivered)
    /\ WF_vars(UnansweredTick)
    /\ WF_vars(Port1OnMessage)
    /\ WF_vars(ResetTimeout)

SpecKillSwitch == InitHosted /\ [][NextKillSwitch]_vars /\ FairHandlers

\* the element's message listener under messages from a window of another
\* origin, with the first two ticks of the heartbeat (a PING, then a miss)
FirstTicks == ticks < 2 /\ HeartbeatTick

NextHostGate ==
    \/ Lifecycle
    \/ FirstTicks
    \/ \E type \in {"READY", "LOG", "RESET_COMPLETE"} :
            ForeignWindowPosts(type)

SpecHostGate == InitHosted /\ [][NextHostGate]_vars

\* the frame cycle of the element that carries the allow list in the URL,
\* with its setNetworkRules() calls
NextCspPolicy ==
    \/ connectedCallback
    \/ OnMessageCsp
    \/ OuterFrameLoad
    \/ RegisterResolved
    \/ CheckState
    \/ RulesSynced
    \/ OuterOnMessage
    \/ InnerFrameLoad
    \/ WorkerActivate
    \/ WorkerOnMessageCsp
    \/ WorkerLogDelivered
    \/ \E rules \in { EmptyRules,
                       [EmptyRules EXCEPT !.files = Some(DemoFiles)],
                       [EmptyRules EXCEPT !.allow = Some({ExampleCom}),
                                          !.files = Some(DemoFiles)] } :
          setNetworkRulesCsp(rules)

SpecCspPolicy == InitHosted /\ [][NextCspPolicy]_vars

\* the relay's queue with commands that repeat the code of the command
\* before them
NextRelayQueue ==
    \/ Lifecycle
    \/ execute
    \/ executeAgain
    \/ InnerOnMessage

SpecRelayQueue == InitHosted /\ [][NextRelayQueue]_vars

\* the console of the inner frame, with an execute() call on the loaded
\* frame and a setNetworkRules() call while the inner frame runs
NextConsole ==
    \/ Lifecycle
    \/ ConsoleLog
    \/ (iframe.doc = "outer" /\ issued = 0 /\ execute)
    \/ (innerLoaded /\ hostRules.ver = 0 /\ setNetworkRules(RulesOfCall(1)))

SpecConsole == InitHosted /\ [][NextConsole]_vars

\* the untrusted frame posting messages shaped like the host's commands
NextContextPosts ==
    \/ Lifecycle
    \/ execute
    \/ InnerOnMessage
    \/ \E type \in {"EXECUTE", "SET_NETWORK_RULES", "RESET"} :
            InnerPostsToRelay(type)

SpecContextPosts == InitHosted /\ [][NextContextPosts]_vars

\* the heartbeat with reset() and with the element leaving and entering
\* the document
NextArming ==
    \/ Lifecycle
    \/ Recovery
    \/ Heartbeat
    \/ disconnectedCallback
    \/ MessageUnheard

SpecArming == InitHosted /\ [][NextArming]_vars

(***************************************************************************)
(* Mediator: properties                                                    *)
(***************************************************************************)
Done == inflight.pc = "done"

\* R's hostname is suffix-matched by an entry of P.allow
SuffixMatched(P, R) ==
    \E d \in P.allow :
        /\ Len(d) <= Len(R.hostname)
        /\ \A i \in 1..Len(d) :
              R.hostname[Len(R.hostname) - Len(d) + i] = d[i]

Refused == inflight.kind = "Block" /\ inflight.status = 403
                                   /\ inflight.fetches = 0

\* C1, as claimed: every request whose hostname no entry of P.allow
\* suffix-matches and whose path is no key of P.files is answered 403 and is
\* neither forwarded nor served.
C1_AnyRequestBlocked ==
    (Done /\ ~SuffixMatched(inflight.admitted, inflight.request)
          /\ inflight.request.pathname \notin DOMAIN inflight.admitted.files)
        => Refused

\* C1, amended: the same for every request that is not same-origin with the
\* worker (same-origin requests go to the cache strategy instead).
C1_CrossOriginBlocked ==
    (Done /\ ~SameOrigin(inflight.request)
          /\ ~SuffixMatched(inflight.admitted, inflight.request)
          /\ inflight.request.pathname \notin DOMAIN inflight.admitted.files)
        => Refused

C1_Witness ==
    /\ Done
    /\ inflight.request.hostname = EvilHost
    /\ inflight.admitted.allow = {ApiHost}
    /\ inflight.request.protocol \in inflight.admitted.allowProtocols
    /\ inflight.request.method \in inflight.admitted.allowMethods
    /\ inflight.status = 403

\* C5, as claimed: the policy fields a request consults after admission (the
\* size limit of the size check, the proxyUrl of the failure hint) have the
\* values they had when the request was admitted.
C5_AdmissionSnapshot ==
    /\ inflight.sizeChecked
          => inflight.maxUsed = inflight.admitted.maxContentLength
    /\ (inflight.pc = "error" /\ inflight.via = "direct")
          => inflight.hint = ~TruthyStr(inflight.admitted.proxyUrl)

\* C6, as claimed: a request whose path is a key of P.files is answered with
\* that file's content, whatever the content, method, protocol or hostname.
C6_VirtualAlwaysServed ==
    (Done /\ inflight.request.pathname \in DOMAIN inflight.admitted.files)
        => /\ inflight.kind = "ServeVirtual"
           /\ inflight.body =
                inflight.admitted.files[inflight.request.pathname]

\* C7, as claimed: a forwarded response that declares a content-length
\* greater than the maxContentLength the size check was given is answered
\* 413 and its body is not released, for every value of maxContentLength.
C7_OversizeNeverReleased ==
    (Done /\ inflight.sizeChecked
          /\ IsSet(inflight.maxUsed) /\ IsSet(inflight.res.contentLength)
          /\ inflight.res.contentLength[1] > inflight.maxUsed[1])
        => inflight.status = 413 /\ inflight.body # "upstream"

C3_ResetAtFifthTick ==
    (hbReset # 0 /\ pongs = 0) => hbReset = Threshold

\* C3 (amended): with no PONG since arming, the interval calls reset() at
\* the tick that counts the 5th missed ping, which is the 6th tick (the
\* first tick only sends a ping): not earlier, not later, and once, since
\* that reset clears the interval.
C3_ResetAtFifthMiss ==
    /\ (hbReset # 0 /\ pongs = 0) => hbReset = Threshold + 1
    /\ (heartbeatIntervalId /\ pongs = 0) =>
          (ticks <= Threshold /\ hbReset = 0)
    /\ hbReset # 0 => (~heartbeatIntervalId /\ ticks = hbReset)

C3_Witness ==
    /\ hbReset = Threshold + 1
    /\ pongs = 0
    /\ isResetting

\* a reset in progress has removed one iframe and set one timer, whatever
\* the number of reset() calls; each removed iframe is rebuilt once
C4_OneTeardownOneRebuild ==
    /\ resetTimers <= 1
    /\ isResetting <=> resetTimers = 1
    /\ teardowns = provisions + resetTimers
    /\ calls > 0 => isResetting
    /\ teardowns = iframe.gen - 1

\* a reset() call made while a reset is in progress changes nothing (but
\* the history count of the calls)
C4_SecondCallChangesNothing ==
    (isResetting /\ calls' = calls + 1) =>
        UNCHANGED <<mvars, parentOrigin, connected, iframe, hostRules,
                    hostInbox, hbVars, isResetting, resetTimers, teardowns,
                    provisions, relayVars, innerVars, swVars, issued, acked,
                    accepted, attacks>>

\* C4: reset() called twice in immediate succession, the second call while
\* the first is in progress, makes exactly one teardown and exactly one
\* rebuild, and the second call changes nothing.
C4_SingleCycle ==
    [] C4_OneTeardownOneRebuild /\ [][C4_SecondCallChangesNothing]_vars

\* reset() has been called twice, the second time while the first was in
\* progress
C4_Witness ==
    /\ calls = 2
    /\ isResetting
    /\ teardowns = 1
    /\ provisions = 0

C9_HostOriginOnly ==
    accepted.type # "none" => accepted.origin = HOST_ORIGIN

\* C10: the worker's rules are the defaults or rules the element sent
\* (ver > 0: a setNetworkRules call; ver 0 with the element's initial rules
\* normalises to the defaults).
C10_SupervisorOnly ==
    \/ networkRules = DefaultRules
    \/ swVer > 0 /\ \E rules \in HostRuleChoices :
                       networkRules = NormalizeRules(rules)

(***************************************************************************)
(* Recovery: properties                                                    *)
(***************************************************************************)
\* the worker of a loaded outer frame has been unregistered
Unregistered == iframe.doc = "outer" /\ swState = "none"

\* C11: once the worker is gone (unregistered by untrusted code) and so
\* answers no PING any more, the element eventually resets and handles the
\* READY of a context newer than the one the worker was taken from.
C11_PulseLostLeadsToRebuild ==
    \A g \in 1..MaxGen :
        (Unregistered /\ iframe.gen = g) ~> (armedGen > g)

\* a reset has begun and no READY of the iframe it made has been handled
RebuildWindow ==
    \/ isResetting
    \/ (teardowns > 0 /\ armedGen < iframe.gen)

\* C12: from the start of a reset's teardown until the READY of the newly
\* made context has been handled, no step sends a PING and no step counts
\* a miss.
C12_DisarmedUntilNewReady ==
    [][RebuildWindow =>
         (pings' <= pings /\ heartbeatFailures' <= heartbeatFailures)]_vars

ReadyTaken ==
    /\ connected
    /\ hostInbox # <<>>
    /\ hostInbox' = Tail(hostInbox)
    /\ Head(hostInbox).origin = sandboxOrigin
    /\ Head(hostInbox).type = "READY"

\* positions of the rules messages of the element in a relay queue
RulesPosted(q) ==
    {i \in DOMAIN q : q[i].source = "parent" /\ q[i].type = "SET_NETWORK_RULES"}

\* the rules message of the element the relay got last, or will get last
\* of those queued
LatestSent ==
    IF RulesPosted(relayInbox) # {}
      THEN LET i == CHOOSE j \in RulesPosted(relayInbox) :
                       \A k \in RulesPosted(relayInbox) : k <= j
           IN  Some([rules |-> relayInbox[i].rules, ver |-> relayInbox[i].ver])
      ELSE pendingRules

\* C13 (state part): once the READY of the current iframe has been handled,
\* the rules sent last are those of the most recent setNetworkRules call.
C13_LatestPolicySent ==
    (connected /\ armedGen = iframe.gen) => LatestSent = Some(hostRules)

Settled ==
    /\ iframe.doc = "outer"
    /\ innerFrameReady
    /\ relayInbox = <<>>
    /\ executionQueue = <<>>
    /\ innerInbox = <<>>

\* C14: every execute call made on an attached iframe before its context
\* was ready has been run by the context exactly once when the context is
\* ready and nothing is left in flight (no reset takes place in SpecRelay).
C14_EarlyExecuteDelivered ==
    Settled =>
        \A k \in 1..issued :
            early[k] =>
                Cardinality({i \in DOMAIN observed : observed[i].code = k}) = 1

\* C16: the element dispatches "ready" at most once for one context: a
\* READY it handles is never of the context whose READY it handled last.
C16_ReadyOncePerContext ==
    [][ReadyTaken => Head(hostInbox).gen # armedGen]_vars

\* C17: a reset that has begun its teardown completes: the flag is cleared
\* and the new iframe is given its source, one rebuild for each teardown,
\* so that reset() passes its guard again.
C17_ResetCompletes ==
    isResetting ~>
        (~ResetGuard /\ iframe.doc # "blank" /\ provisions = teardowns)

\* a reset has run to its end: the second iframe is loading
C17_Witness ==
    /\ ~isResetting
    /\ teardowns = 1
    /\ provisions = 1
    /\ iframe = [gen |-> 2, doc |-> "loading", src |-> Absent]

\* C18: a command that was in the relay's queue when a reset removed its
\* frame is never run, neither by the context that reset makes nor by a
\* later one.
C18_DiscardedNeverRun ==
    \A i \in DOMAIN observed : observed[i].code \notin discarded

\* a reset has dropped a queued command, and the context it made is ready
\* with nothing in flight
C18_Witness ==
    /\ discarded # {}
    /\ iframe.gen = 2
    /\ Settled

\* the outer frame takes a RESET as a host command in this step
ResetTaken ==
    /\ iframe.doc = "outer"
    /\ relayInbox # <<>>
    /\ relayInbox' = Tail(relayInbox)
    /\ TakenAsHost(Head(relayInbox))
    /\ Head(relayInbox).type = "RESET"

\* C19: when the relay takes a RESET it empties its queue and goes back to
\* not-ready, so that a later EXECUTE is queued and none queued before is
\* forwarded.
C19_ResetClearsRelay ==
    [][ResetTaken => (executionQueue' = <<>> /\ ~innerFrameReady')]_vars

(***************************************************************************)
(* Mediator: faults                                                        *)
(***************************************************************************)
\* C20: whatever the request, the rules, the cache strategy and the outcome
\* of the upstream fetch, the promise given to respondWith resolves to a
\* response: no handled event ends in a rejection.
C20_AlwaysAResponse ==
    Done => inflight.kind # "Fault"

(***************************************************************************)
(* Mediator: telemetry                                                     *)
(***************************************************************************)
Allowing == inflight.kind \in {"ServeVirtual", "ServeCache", "Passthrough",
                               "Forward"}

\* C21: a request that has been answered has sent exactly one event (at
\* most one for a virtual file, whose repeated hits may stay silent), of
\* area "network" when the request was allowed or served and of area
\* "security" when it was blocked.
C21_OneEventPerDecision ==
    (Done /\ inflight.kind # "Fault")
        => /\ Len(inflight.telemetry) <= 1
           /\ inflight.kind # "ServeVirtual" => Len(inflight.telemetry) = 1
           /\ \A i \in DOMAIN inflight.telemetry :
                 inflight.telemetry[i].area =
                     IF Allowing THEN "network" ELSE "security"

(***************************************************************************)
(* Mediator: the proxy's URL                                               *)
(***************************************************************************)
ViaProxy == inflight.via = "proxy" /\ inflight.fetches = 1

Encoded == <<"?", "url", "=">> \o PercentEncode(Href(inflight.request))

\* C22, as claimed: the URL fetched for a request that goes through the
\* proxy is proxyUrl, then "?url=", then the percent-encoded request URL,
\* for a proxyUrl of either form.
C22_ProxyUrlThenEncoded ==
    ViaProxy
        => inflight.target = Tokens(inflight.admitted.proxyUrl[1]) \o Encoded

\* C22, amended: the same for a proxyUrl that does not start with "/"; one
\* that starts with "/" is fetched on the host origin (the worker's origin
\* with its first "sandbox." removed), followed by proxyUrl, "?url=" and the
\* percent-encoded request URL.
C22_ProxyUrlOnHostOrigin ==
    ViaProxy
        => LET proxyUrl == Tokens(inflight.admitted.proxyUrl[1])
           IN  inflight.target =
                 IF Head(proxyUrl) = "/"
                   THEN <<"http", ":", "/", "/", "localhost">>
                            \o proxyUrl \o Encoded
                   ELSE proxyUrl \o Encoded

C22_Witness ==
    /\ Done /\ ViaProxy /\ inflight.kind = "Forward"
    /\ inflight.admitted.proxyUrl = Some("/_proxy")
    /\ inflight.request.hostname = ApiHost
    /\ inflight.request.pathname = "/data"

(***************************************************************************)
(* Mediator: cache strategies                                              *)
(***************************************************************************)
\* the request in flight is a same-origin request for an asset (no virtual
\* file answers it) admitted under the given cacheStrategy
AssetUnder(strategy) ==
    /\ inflight.pc # "idle"
    /\ SameOrigin(inflight.request)
    /\ inflight.pc # "virtual" /\ inflight.kind # "ServeVirtual"
    /\ inflight.admitted.cacheStrategy = strategy

\* C23: under cache-first, a same-origin asset request (a GET; the store
\* matches no other method) whose path has a cache entry never fetches from
\* the network and, once answered, has been answered from the cache.
C23_CacheFirstNoFetch ==
    (AssetUnder("cache-first")
        /\ inflight.request.method = "GET"
        /\ inflight.request.pathname \in cache)
      => /\ inflight.fetches = 0
         /\ inflight.pc \notin {"pass_fetch", "inner_fetch"}
         /\ Done => inflight.kind = "ServeCache"

C23_Witness ==
    /\ AssetUnder("cache-first") /\ Done
    /\ inflight.request.method = "GET"
    /\ inflight.request.pathname = "/data"
    /\ inflight.request.pathname \in cache
    /\ inflight.kind = "ServeCache"

\* C24: under network-only, a same-origin request for any asset path, the
\* context's own document included, neither reads nor writes the cache.
C24_NetworkOnlyNoCache ==
    AssetUnder("network-only") => ~inflight.cacheUsed

(***************************************************************************)
(* Supervisor: messages of other origins                                   *)
(***************************************************************************)
ForeignTaken ==
    /\ connected /\ hostInbox # <<>> /\ hostInbox' = Tail(hostInbox)
    /\ Head(hostInbox).origin # sandboxOrigin

\* C25: when the element's listener takes a message whose origin is not the
\* sandbox origin, it dispatches no event, posts nothing to the frame (no
\* rules, no heartbeat port), leaves the heartbeat as it is and changes no
\* state of the element.
C25_ForeignDropped ==
    [][ForeignTaken =>
          /\ emitted' = "none"
          /\ UNCHANGED <<relayInbox, swInbox, heartbeatPort, hbVars,
                         resetVars, iframe, hostRules, connected, armedGen,
                         acked>>]_vars

C25_Witness ==
    /\ attacks = 1 /\ hostInbox = <<>>
    /\ armedGen = 1 /\ emitted = "none"
    /\ heartbeatIntervalId /\ heartbeatFailures = 1 /\ ticks = 2
    /\ relayInbox = <<>>

(***************************************************************************)
(* Supervisor: hot-applied and construction-time policy fields             *)
(***************************************************************************)
PolicyCall == hostRules'.ver = hostRules.ver + 1

\* the frame is loaded, its READY has been handled and nothing is on its
\* way between the element, the relay and the worker
CspSettled ==
    /\ iframe.doc = "outer" /\ armedGen = iframe.gen /\ innerFrameReady
    /\ swState = "active" /\ polling = "off"
    /\ hostInbox = <<>> /\ relayInbox = <<>> /\ syncQueue = <<>>
    /\ swInbox = <<>> /\ swOutbox = <<>>

PolicyInForce ==
    /\ iframe.src = CalculateIframeSrc(hostRules.rules)
    /\ networkRules.files = Coalesce(hostRules.rules.files, NoFiles)

\* C26: a setNetworkRules call that leaves the URL of the frame as it is
\* (only the virtual files differ) does not touch the frame; one that
\* changes the allow list carried in the URL loads the frame anew and posts
\* nothing to the old one; and in both cases, once the frame is ready and
\* its messages are delivered, the worker serves the files of the policy
\* set last and the frame runs under its allow list.
C26_HotApplyOrRecreate ==
    /\ [][PolicyCall =>
            IF iframe.src = CalculateIframeSrc(hostRules'.rules)
              THEN iframe' = iframe
              ELSE iframe'.gen = iframe.gen + 1 /\ relayInbox' = <<>>]_vars
    /\ [](CspSettled => PolicyInForce)

(***************************************************************************)
(* Supervisor: what the host sees of a threshold breach                    *)
(***************************************************************************)
\* the interval callback finds the threshold reached and calls reset()
Breach == hbReset' # hbReset /\ hbReset' # 0

\* C27: the tick that finds the heartbeat threshold reached dispatches a
\* "log" event on the element.
C27_BreachLogged ==
    [][Breach => emitted' = "log"]_vars

(***************************************************************************)
(* Mediator: the domain check                                              *)
(***************************************************************************)
\* hostname is an entry of the list or a subdomain of one
OnLabelBoundary(allowList, hostname) ==
    \E domain \in allowList :
        hostname = domain \/ EndsWith(hostname, <<".">> \o domain)

\* C28: a cross-origin request that no virtual file answers and whose
\* protocol and method are allowed passes the domain check (is forwarded)
\* exactly when its hostname is an allowedDomains entry or a subdomain of
\* one; a hostname that only ends with the characters of an entry is
\* blocked.
C28_LabelBoundary ==
    (/\ inflight.pc \notin {"idle", "virtual"}
     /\ inflight.kind # "ServeVirtual"
     /\ ~SameOrigin(inflight.request)
     /\ inflight.request.protocol \in inflight.admitted.allowProtocols
     /\ inflight.request.method \in inflight.admitted.allowMethods)
        => (inflight.via # "none"
              <=> OnLabelBoundary(inflight.admitted.allow,
                                  inflight.request.hostname))

(***************************************************************************)
(* Mediator: a direct forward that fails                                   *)
(***************************************************************************)
DirectFailed ==
    inflight.via = "direct" /\ inflight.fetches = 1 /\ ~inflight.res.ok

PongStep ==
    /\ port1Inbox # <<>> /\ Head(port1Inbox) = "PONG"
    /\ port1Inbox' = Tail(port1Inbox)

\* a step within one cycle: the same iframe, and no first READY of a
\* context handled
SameCycle == iframe' = iframe /\ armedGen' = armedGen /\ armedGen = iframe.gen

\* C30: within one cycle, a step that sets heartbeatFailures back to 0,
\* clears a pending ping or restarts the count of ticks towards the
\* threshold takes a PONG from port1.
C30_OnlyPongResets ==
    [][(SameCycle /\ \/ (heartbeatFailures > 0 /\ heartbeatFailures' = 0)
                     \/ (pendingPing /\ ~pendingPing')
                     \/ (ticks > 0 /\ ticks' = 0))
          => PongStep]_vars

(***************************************************************************)
(* Supervisor: messages of a context that a reset has removed              *)
(***************************************************************************)
\* the element's listener takes a message that the outer frame of an
\* iframe removed by reset() had posted
SupersededTaken ==
    /\ connected /\ hostInbox # <<>> /\ hostInbox' = Tail(hostInbox)
    /\ teardowns > 0
    /\ Head(hostInbox).gen < iframe.gen

\* C31: a message of a context that reset() has removed, taken by the
\* element after that reset, dispatches no event, posts no rules (and no
\* heartbeat port) and arms no heartbeat.
C31_SupersededDropped ==
    [][SupersededTaken =>
          /\ emitted' = "none"
          /\ UNCHANGED <<relayInbox, hbVars, armedGen>>]_vars

(***************************************************************************)
(* Supervisor: the count of missed PONGs                                   *)
(***************************************************************************)
\* with no ping pending the count is 0, so the count is the number of ticks
\* in a row that found the ping before them unanswered
C32_CountInRange ==
    /\ heartbeatFailures \in 0..Threshold
    /\ ~pendingPing => heartbeatFailures = 0

\* port1.onmessage takes a PONG (the channel stays as it is)
PongHandled == PongStep /\ UNCHANGED <<heartbeatChannel, ticks, iframe>>

AckTaken ==
    /\ heartbeatChannel
    /\ heartbeatPort = "cur"
    /\ \A i \in DOMAIN port1Inbox : port1Inbox[i] # "SW_HEARTBEAT_CONNECTED"

\* C33: a step that sends a PING or counts a miss is taken only after the
\* worker's acknowledgement for the current channel has been received.
C33_PingOnlyWhenConnected ==
    [][(pings' > pings \/ heartbeatFailures' > heartbeatFailures)
          => AckTaken]_vars

(***************************************************************************)
(* Relay: the queue of early commands                                      *)
(***************************************************************************)
RelayTakes(source, type) ==
    /\ iframe.doc = "outer" /\ iframe' = iframe
    /\ relayInbox # <<>> /\ relayInbox' = Tail(relayInbox)
    /\ Head(relayInbox).source = source
    /\ Head(relayInbox).type = type

C35_FirstCheckDecides ==
    Done =>
      LET r == inflight.request
          P == inflight.admitted
      IN  IF TruthyStr(FileAt(P.files, r.pathname))
            THEN inflight.kind = "ServeVirtual" /\ inflight.reason = "none"
          ELSE IF SameOrigin(r)
            THEN inflight.kind # "Block" /\ inflight.reason = "none"
          ELSE IF r.protocol \notin P.allowProtocols
            THEN Refused /\ inflight.reason = "protocol"
          ELSE IF r.method \notin P.allowMethods
            THEN Refused /\ inflight.reason = "method"
          ELSE IF ~SuffixMatched(P, r)
            THEN Refused /\ inflight.reason = "domain"
          ELSE inflight.via # "none" /\ inflight.reason = "none"

\* a request to an allow-listed hostname, with a protocol and a method that
\* are both not allowed, has been answered 403 for its protocol
C35_Witness ==
    /\ Done /\ Refused /\ inflight.reason = "protocol"
    /\ inflight.request = [method |-> "POST", protocol |-> "http",
                           hostname |-> ApiHost, pathname |-> "/data"]
    /\ inflight.admitted.allow = {ApiHost}
    /\ inflight.admitted.allowProtocols = {"https"}
    /\ inflight.admitted.allowMethods = {"GET"}

(***************************************************************************)
(* Mediator: replacement of the rules                                      *)
(***************************************************************************)
\* the rules of a message, each field it leaves out at its default
Effective(P) ==
    [allow            |-> IF IsSet(P.allow) THEN P.allow[1]
                                            ELSE DefaultRules.allow,
     allowProtocols   |-> IF IsSet(P.allowProtocols)
                            THEN P.allowProtocols[1]
                            ELSE DefaultRules.allowProtocols,
     allowMethods     |-> IF IsSet(P.allowMethods) THEN P.allowMethods[1]
                            ELSE DefaultRules.allowMethods,
     maxContentLength |-> P.maxContentLength,
     proxyUrl         |-> P.proxyUrl,
     files            |-> IF IsSet(P.files) THEN P.files[1]
                                            ELSE DefaultRules.files,
     cacheStrategy    |-> IF IsSet(P.cacheStrategy) THEN P.cacheStrategy[1]
                            ELSE DefaultRules.cacheStrategy]

\* the worker's message handler takes a rules message
WorkerTakesRules ==
    /\ swState # "none" /\ swState' = swState
    /\ swInbox # <<>> /\ swInbox' = Tail(swInbox)
    /\ Head(swInbox).type = "SET_NETWORK_RULES"

AssetFetched(strategy) ==
    /\ AssetUnder(strategy)
    /\ inflight.request.method = "GET"
    /\ inflight.request.pathname # "/inner-frame.html"
    /\ inflight'.fetches = inflight.fetches + 1

\* network-first: a fetch that succeeds leaves an entry for the request in
\* the cache, and one that fails is answered from the cache when the cache
\* has an entry
NetworkFirstRefreshes ==
    /\ [][(AssetFetched("network-first") /\ inflight'.res.ok)
            => inflight.request.pathname \in cache']_vars
    /\ []((AssetUnder("network-first") /\ Done
             /\ inflight.request.method = "GET"
             /\ inflight.request.pathname # "/inner-frame.html"
             /\ ~inflight.res.ok /\ inflight.request.pathname \in cache)
            => inflight.kind = "ServeCache")

\* C37: for same-origin assets, cache-first stores the response fetched
\* after a miss, so that the same request is a hit next time; network-first
\* refreshes the entry on success and answers a failure from the cache
\* when it has an entry.
C37_StrategiesFillCache ==
    /\ [][(AssetFetched("cache-first") /\ inflight'.res.ok)
            => inflight.request.pathname \in cache']_vars
    /\ NetworkFirstRefreshes

(***************************************************************************)
(* Telemetry of the context                                                *)
(***************************************************************************)
FromConsole(m) == m.type = "LOG" /\ m.text = "console"

InnerLog(m) == m.source = "inner" /\ m.type = "LOG"

\* the numbers of the context's LOGs queued on the host window, and of
\* those queued on the outer frame's window
LogsAtHost ==
    LET q == SelectSeq(hostInbox, FromConsole)
    IN  [i \in DOMAIN q |-> q[i].ver]

LogsAtRelay ==
    LET q == SelectSeq(relayInbox, InnerLog)
    IN  [i \in DOMAIN q |-> q[i].code]

InnerTaken ==
    /\ iframe.doc = "outer" /\ iframe' = iframe
    /\ relayInbox # <<>> /\ relayInbox' = Tail(relayInbox)
    /\ Head(relayInbox).source = "inner"

\* C39: when the relay takes a message of the inner frame, it takes it for
\* no host command: nothing is passed to the worker, the rules kept for the
\* worker and the worker's registration stay as they are, and unless the
\* message is READY nothing is posted to the context or put in the queue;
\* only READY and LOG post anything to the host.
C39_ContextNeverCommands ==
    [][InnerTaken =>
          /\ UNCHANGED <<accepted, pendingRules, syncQueue, swInbox,
                         workerState>>
          /\ Head(relayInbox).type # "READY" =>
                UNCHANGED <<innerInbox, executionQueue, innerFrameReady>>
          /\ Head(relayInbox).type \notin {"READY", "LOG"} =>
                UNCHANGED hostInbox]_vars

\* the message the inner frame shaped like a command has been taken: the
\* context got no command, the worker is registered and has its first rules
C39_Witness ==
    /\ attacks = 1 /\ relayInbox = <<>>
    /\ innerFrameReady /\ armedGen = 1
    /\ issued = 0 /\ innerInbox = <<>> /\ executionQueue = <<>>
    /\ swState = "active" /\ swVer = 0 /\ swInbox = <<>>
    /\ networkRules = DefaultRules
    /\ accepted.source = "parent"

(***************************************************************************)
(* The heartbeat's timer and channel: properties                           *)
(***************************************************************************)
NoneLive == [timers |-> 0, channels |-> 0]

OneLive == [timers |-> 1, channels |-> 1]

\* reset() passes its guard, or the element leaves the document
HeartbeatStopped ==
    \/ teardowns' = teardowns + 1
    \/ connected /\ ~connected'

\* C40: at most one heartbeat timer and at most one heartbeat channel are
\* active at any time, and they are the ones the element holds; arming
\* (a READY handled) leaves exactly one of each; when reset() starts or the
\* element is disconnected none remains active, and none becomes active
\* except by the next arming.
C40_OneHeartbeat ==
    /\ [](/\ live.timers = (IF heartbeatIntervalId THEN 1 ELSE 0)
          /\ live.channels = (IF heartbeatChannel THEN 1 ELSE 0))
    /\ [][ReadyTaken => live' = OneLive]_vars
    /\ [][HeartbeatStopped => live' = NoneLive]_vars
    /\ [][live' # live /\ live' # NoneLive => ReadyTaken]_vars

\* the element left the document with its heartbeat armed, came back and
\* armed again on the READY of the new frame, a second READY of that frame
\* still to be handled
C40_Witness ==
    /\ connected
    /\ teardowns = 0
    /\ iframe.gen = 2
    /\ armedGen = 2
    /\ ticks > 0
    /\ live = OneLive
    /\ hostInbox # <<>>
    /\ Head(hostInbox).type = "READY"
    /\ Head(hostInbox).gen = 2

====
